---------------------------- MODULE Spec2Model ----------------------------
(***************************************************************************)
(* Subtitle-Translator: the SRT codec (parseSRT / stringifySRT), the       *)
(* aligner (alignSrts), the reference resolver (createReferenceMap /       *)
(* extractStyleExamples), the example sampler (getTrainingExamples) and    *)
(* the batch translator (translateBatch).                                  *)
(*                                                                         *)
(* A JavaScript string is modelled as a sequence of one-character strings, *)
(* so that trimming, splitting, searching and number formatting are        *)
(* computed character by character, the way the code computes them.       *)
(***************************************************************************)
EXTENDS Integers, Sequences, FiniteSets, TLC

VARIABLES
    pc,              \* position of the running scenario
    blocks,          \* SrtBlock[] handed to stringifySRT
    content,         \* SRT text handed to parseSRT
    parsed,          \* SrtBlock[] returned by parseSRT
    originalSrt,     \* first argument of alignSrts / createReferenceMap / extractStyleExamples
    translatedSrt,   \* second argument of the same
    aligned,         \* SrtBlock[] returned by alignSrts
    refMap,          \* Map<string,string> returned by createReferenceMap
    cursor,          \* extractStyleExamples: index of the next aligned block
    examples,        \* the examples array being filled (style examples / training examples)
    store,           \* IndexedDB object store 'projects': key (project id) -> TranslationProject
    projects,        \* getTrainingExamples: the array getAllProjects resolved with
    limit,           \* argument of getTrainingExamples
    heap,            \* the objects created so far: address -> SrtBlock
    calls,           \* the invocations of the srtParser.ts functions made so far
    resultBlocks,    \* translateBatch: resultBlocks, an array of addresses
    blocksToTranslate, \* translateBatch: blocksToTranslate, an array of addresses
    batchStart,      \* translateBatch: the loop variable i
    progress,        \* the counts passed to onProgress so far
    prefilled,       \* the addresses filled from the reference map, with the value written
    referenceMap,    \* translateBatch: the referenceMap argument (a Map, or null)
    outcomes,        \* translateBatch: what each batch sent so far came back with
    status,          \* App: status
    file,            \* App: file (a File, or null)
    srtBlocks,       \* App: srtBlocks, an array of addresses
    edits            \* the texts typed into the editor since the file was loaded, by position

vars == <<pc, blocks, content, parsed, originalSrt, translatedSrt, aligned,
          refMap, cursor, examples, store, projects, limit,
          heap, calls, resultBlocks, blocksToTranslate, batchStart, progress, prefilled,
          referenceMap, outcomes, status, file, srtBlocks, edits>>

codecVars   == <<blocks, content, parsed>>
alignVars   == <<originalSrt, translatedSrt, aligned, refMap, cursor>>
samplerVars == <<store, projects, limit>>
pureVars    == <<heap, calls>>
translateVars == <<resultBlocks, blocksToTranslate, batchStart, progress, prefilled,
                  referenceMap, outcomes>>
appVars     == <<status, file, srtBlocks, edits>>

---------------------------------------------------------------------------
(* Characters and JavaScript string primitives                             *)

NL  == "\n"
CR  == "\r"
SP  == " "
TAB == "\t"

\* The characters String.prototype.trim strips (those that occur in the model).
WhiteSpace == {SP, NL, CR, TAB}

DigitChars == <<"0", "1", "2", "3", "4", "5", "6", "7", "8", "9">>
Digits     == {DigitChars[i] : i \in 1..10}
DigitVal(c) == (CHOOSE i \in 1..10 : DigitChars[i] = c) - 1

LowerCase == {"a", "b", "c", "d", "e", "f", "g", "h", "i", "j", "k", "l", "m",
              "n", "o", "p", "q", "r", "s", "t", "u", "v", "w", "x", "y", "z"}
UpperCase == {"A", "B", "C", "D", "E", "F", "G", "H", "I", "J", "K", "L", "M",
              "N", "O", "P", "Q", "R", "S", "T", "U", "V", "W", "X", "Y", "Z"}

Indices(s) == [i \in 1..Len(s) |-> i]

\* s.trim()
trim(s) ==
    LET solid == SelectSeq(Indices(s), LAMBDA i : s[i] \notin WhiteSpace)
    IN  IF solid = <<>> THEN <<>>
        ELSE SubSeq(s, solid[1], solid[Len(solid)])

\* The pieces of s between separators, the k-th separator being s[from[k]..to[k]]
\* (String.prototype.split keeps empty pieces, also the first and the last).
Pieces(s, from, to) ==
    [k \in 1..(Len(from) + 1) |->
        SubSeq(s, IF k = 1 THEN 1 ELSE to[k - 1] + 1,
                  IF k = Len(from) + 1 THEN Len(s) ELSE from[k] - 1)]

\* s.split('\n')
splitLines(s) ==
    LET at == SelectSeq(Indices(s), LAMBDA i : s[i] = NL)
    IN  Pieces(s, at, at)

\* s.split(/\n\n+/): every maximal run of two or more newlines is one separator
splitBlocks(s) ==
    LET n == Len(s)
        from == SelectSeq(Indices(s), LAMBDA i :
                    /\ s[i] = NL
                    /\ i < n /\ s[i + 1] = NL
                    /\ (i = 1 \/ s[i - 1] # NL))
        to   == SelectSeq(Indices(s), LAMBDA i :
                    /\ s[i] = NL
                    /\ i > 1 /\ s[i - 1] = NL
                    /\ (i = n \/ s[i + 1] # NL))
    IN  Pieces(s, from, to)

ArrowAt(s, i) == i + 2 <= Len(s) /\ s[i] = "-" /\ s[i + 1] = "-" /\ s[i + 2] = ">"

\* s.includes('-->')
includesArrow(s) == \E i \in 1..Len(s) : ArrowAt(s, i)

\* s.split('-->')
splitArrow(s) ==
    LET from == SelectSeq(Indices(s), LAMBDA i : ArrowAt(s, i))
    IN  Pieces(s, from, [k \in 1..Len(from) |-> from[k] + 2])

\* lines.join(sep)
RECURSIVE join(_, _)
join(lines, sep) ==
    IF lines = <<>> THEN <<>>
    ELSE IF Len(lines) = 1 THEN lines[1]
    ELSE lines[1] \o sep \o join(Tail(lines), sep)

\* A normalisation that knows '\r\n' only: s.replace(/\r\n/g, '\n')
normalizeLineEndingsCrLfOnly(s) ==
    LET n == Len(s)
    IN  SelectSeq([i \in 1..n |-> IF s[i] = CR /\ i < n /\ s[i + 1] = NL THEN "" ELSE s[i]],
                  LAMBDA c : c # "")

\* s.replace(/\r\n/g, '\n').replace(/\r/g, '\n')
normalizeLineEndings(s) ==
    LET n == Len(s)
        keep == SelectSeq(Indices(s), LAMBDA i :
                    ~(s[i] = CR /\ i < n /\ s[i + 1] = NL))
    IN  [k \in 1..Len(keep) |-> IF s[keep[k]] = CR THEN NL ELSE s[keep[k]]]

\* s.replace(/\n/g, ' ')
flatten(s) == [i \in 1..Len(s) |-> IF s[i] = NL THEN SP ELSE s[i]]

\* A JavaScript number that parseInt returns: NaN, or an integer.
NaN == [nan |-> TRUE]
Number(n) == [nan |-> FALSE, value |-> n]
isNaN(v) == v.nan

RECURSIVE DigitsValue(_, _)
DigitsValue(ds, acc) ==
    IF ds = <<>> THEN acc
    ELSE DigitsValue(Tail(ds), 10 * acc + DigitVal(ds[1]))

\* parseInt(s, 10): leading white space is skipped, then an optional sign, then
\* the longest run of decimal digits; what follows the digits is ignored.
parseInt(s) ==
    LET solid  == SelectSeq(Indices(s), LAMBDA i : s[i] \notin WhiteSpace)
        first  == IF solid = <<>> THEN Len(s) + 1 ELSE solid[1]
        signed == first <= Len(s) /\ s[first] \in {"-", "+"}
        start  == IF signed THEN first + 1 ELSE first
        stop   == SelectSeq(Indices(s), LAMBDA i : i >= start /\ s[i] \notin Digits)
        end    == IF stop = <<>> THEN Len(s) ELSE stop[1] - 1
    IN  IF end < start THEN NaN
        ELSE IF signed /\ s[first] = "-"
             THEN Number(0 - DigitsValue(SubSeq(s, start, end), 0))
             ELSE Number(DigitsValue(SubSeq(s, start, end), 0))

\* `${n}` for an integer n
RECURSIVE NatToString(_)
NatToString(n) ==
    IF n < 10 THEN <<DigitChars[n + 1]>>
    ELSE Append(NatToString(n \div 10), DigitChars[(n % 10) + 1])

numberToString(n) == IF n < 0 THEN <<"-">> \o NatToString(0 - n) ELSE NatToString(n)

---------------------------------------------------------------------------
(* SRT codec: src/services/srtParser.ts                                    *)

\* A loop body that asks for two lines only and so accepts a cue without text.
parseCandidateTwoLines(block) ==
    LET lines == splitLines(trim(block))
    IN  IF Len(lines) < 2 \/ isNaN(parseInt(lines[1])) \/ ~includesArrow(lines[2])
        THEN <<>>
        ELSE LET times == splitArrow(lines[2])
             IN  << [id |-> parseInt(lines[1]).value,
                     startTime |-> trim(times[1]),
                     endTime |-> trim(times[2]),
                     originalText |-> join(SubSeq(lines, 3, Len(lines)), <<NL>>)] >>

\* A loop body that keeps the two halves of the timing line as they are.
parseCandidateUntrimmedTimes(block) ==
    LET lines == splitLines(trim(block))
    IN  IF Len(lines) < 3 \/ isNaN(parseInt(lines[1])) \/ ~includesArrow(lines[2])
        THEN <<>>
        ELSE LET times == splitArrow(lines[2])
             IN  << [id |-> parseInt(lines[1]).value,
                     startTime |-> times[1],
                     endTime |-> times[2],
                     originalText |-> join(SubSeq(lines, 3, Len(lines)), <<NL>>)] >>

\* One iteration of the loop of parseSRT: the blocks the candidate adds (none or one).
parseCandidate(block) ==
    LET lines == splitLines(trim(block))
    IN  IF Len(lines) < 3 THEN <<>>
        ELSE LET id == parseInt(lines[1])
                 timeLine == lines[2]
             IN  IF isNaN(id) THEN <<>>
                 ELSE IF ~includesArrow(timeLine) THEN <<>>
                 ELSE LET times == splitArrow(timeLine)
                      IN  << [id |-> id.value,
                              startTime |-> trim(times[1]),
                              endTime |-> trim(times[2]),
                              originalText |-> join(SubSeq(lines, 3, Len(lines)), <<NL>>)] >>

RECURSIVE parseCandidates(_)
parseCandidates(cands) ==
    IF cands = <<>> THEN <<>>
    ELSE parseCandidate(cands[1]) \o parseCandidates(Tail(cands))

\* A parser with a module-level counter: it numbers the blocks it creates across
\* invocations instead of reading their ids.
parseSRTNumbering(text) ==
    LET bs == parseCandidates(splitBlocks(normalizeLineEndings(text)))
    IN  [i \in 1..Len(bs) |-> [bs[i] EXCEPT !.id = Len(heap) + i]]

parseSRT(text) == parseCandidates(splitBlocks(normalizeLineEndings(text)))

HasTranslated(b) == "translatedText" \in DOMAIN b

\* A serializer that forgets the translation.
textContentOriginalOnly(b) == b.originalText

\* block.translatedText || block.originalText: an empty string is falsy
textContent(b) ==
    IF HasTranslated(b) /\ b.translatedText # <<>> THEN b.translatedText
    ELSE b.originalText

\* A serializer that writes the arrow without blanks around it.
stringifyBlockTightArrow(b) ==
    numberToString(b.id) \o <<NL>> \o b.startTime \o <<"-", "-", ">">>
        \o b.endTime \o <<NL>> \o textContent(b)

stringifyBlock(b) ==
    numberToString(b.id) \o <<NL>> \o b.startTime \o <<SP, "-", "-", ">", SP>>
        \o b.endTime \o <<NL>> \o textContent(b)

stringifySRT(bs) == join([i \in 1..Len(bs) |-> stringifyBlock(bs[i])], <<NL, NL>>)


---------------------------------------------------------------------------
(* Aligner: src/services/srtParser.ts, alignSrts                            *)

\* A lookup keyed by the position in the file instead of the id.
translatedMapGetByPosition(translatedBlocks, id) ==
    IF id \in 1..Len(translatedBlocks) THEN id ELSE 0

\* translatedMap.get(id) after translatedBlocks.forEach(b => translatedMap.set(b.id, b)):
\* the index of the last translated block with that id, 0 for undefined.
translatedMapGet(translatedBlocks, id) ==
    LET hits == SelectSeq(Indices(translatedBlocks),
                          LAMBDA k : translatedBlocks[k].id = id)
    IN  IF hits = <<>> THEN 0 ELSE hits[Len(hits)]

\* A fallback that accepts every positional candidate.
sanityCheckSkipped(candidate, orig) == TRUE

\* candidate.startTime === orig.startTime
sanityCheck(candidate, orig) == candidate.startTime = orig.startTime

\* A matcher that tries the position before the id.
matchIndexPositionFirst(orig, index, translatedBlocks) ==
    IF index <= Len(translatedBlocks) /\ sanityCheck(translatedBlocks[index], orig)
    THEN index
    ELSE translatedMapGet(translatedBlocks, orig.id)

\* The translated block chosen for the original block at (1-based) index: its
\* index in translatedBlocks, 0 when trans stays undefined.
matchIndex(orig, index, translatedBlocks) ==
    LET byId == translatedMapGet(translatedBlocks, orig.id)
    IN  IF byId # 0 THEN byId
        ELSE IF index <= Len(translatedBlocks)
                /\ sanityCheck(translatedBlocks[index], orig)
             THEN index
             ELSE 0

\* A pair built by spreading the translated block instead of the original.
alignedPairOfTranslated(orig, trans) ==
    [f \in DOMAIN trans \cup {"translatedText"} |->
        IF f = "translatedText" THEN trans.originalText ELSE trans[f]]

\* { ...orig, translatedText: trans.originalText }
alignedPair(orig, trans) ==
    [f \in DOMAIN orig \cup {"translatedText"} |->
        IF f = "translatedText" THEN trans.originalText ELSE orig[f]]

\* originalBlocks.forEach((orig, index) => ...), from index on
RECURSIVE alignFrom(_, _, _)
alignFrom(originalBlocks, translatedBlocks, index) ==
    IF index > Len(originalBlocks) THEN <<>>
    ELSE LET orig == originalBlocks[index]
             m == matchIndex(orig, index, translatedBlocks)
         IN  (IF m # 0 THEN <<alignedPair(orig, translatedBlocks[m])>> ELSE <<>>)
                \o alignFrom(originalBlocks, translatedBlocks, index + 1)

alignSrts(originalContent, translatedContent) ==
    alignFrom(parseSRT(originalContent), parseSRT(translatedContent), 1)

---------------------------------------------------------------------------
(* Reference resolver: src/services/srtParser.ts, createReferenceMap        *)

\* new Map<string, string>()
EmptyMap == [k \in {} |-> <<>>]

\* A map whose first writer wins.
mapSetIfAbsent(map, key, value) ==
    [k \in DOMAIN map \cup {key} |-> IF k \in DOMAIN map THEN map[k] ELSE value]

\* map.set(key, value)
mapSet(map, key, value) ==
    [k \in DOMAIN map \cup {key} |-> IF k = key THEN value ELSE map[k]]

Min(a, b) == IF a < b THEN a ELSE b

\* A value taken from the translated block with the same id, when there is one.
referenceValueById(originals, translations, i) ==
    LET m == translatedMapGet(translations, originals[i].id)
    IN  trim(translations[IF m # 0 THEN m ELSE i].originalText)

\* translations[i].originalText.trim()
referenceValue(originals, translations, i) == trim(translations[i].originalText)

\* for (let i = 0; i < count; i++) { ... }, from (1-based) i on
RECURSIVE referenceFrom(_, _, _, _)
referenceFrom(originals, translations, i, map) ==
    IF i > Min(Len(originals), Len(translations)) THEN map
    ELSE LET key == trim(originals[i].originalText)
             value == referenceValue(originals, translations, i)
         IN  referenceFrom(originals, translations, i + 1,
                 IF key # <<>> /\ value # <<>> THEN mapSet(map, key, value) ELSE map)

\* A loop that starts at the second pair.
createReferenceMapFromSecond(originalContent, translatedContent) ==
    referenceFrom(parseSRT(originalContent), parseSRT(translatedContent), 2, EmptyMap)

createReferenceMap(originalContent, translatedContent) ==
    referenceFrom(parseSRT(originalContent), parseSRT(translatedContent), 1, EmptyMap)

---------------------------------------------------------------------------
(* Reference resolver: src/services/srtParser.ts, extractStyleExamples      *)

StyleHardLimit == 40      \* if (examples.length >= 40) break
StyleSoftLimit == 20      \* examples.length < 20
StyleLongText  == 20      \* text.length > 20

\* /[a-z] [A-Z]/.test(text)
hasProperNoun(text) ==
    \E i \in 1..(Len(text) - 2) :
        text[i] \in LowerCase /\ text[i + 1] = SP /\ text[i + 2] \in UpperCase

\* An inclusion test whose length rule ignores how many examples were collected.
includePairAnyLong(text, collected) ==
    hasProperNoun(text) \/ Len(text) > StyleLongText

\* hasProperNoun || (examples.length < 20 && text.length > 20)
includePair(text, collected) ==
    hasProperNoun(text) \/ (collected < StyleSoftLimit /\ Len(text) > StyleLongText)

\* { original: text.replace(/\n/g, ' '), translated: block.translatedText.replace(/\n/g, ' ') }
styleExample(text, block) ==
    [original |-> flatten(text), translated |-> flatten(block.translatedText)]

\* A loop body that measures and tests the text without trimming it.
styleStepUntrimmed(collected, block) ==
    IF ~(HasTranslated(block) /\ block.translatedText # <<>>) THEN collected
    ELSE IF includePair(block.originalText, Len(collected))
         THEN Append(collected, styleExample(trim(block.originalText), block))
         ELSE collected

\* The examples array after the loop body has run for block.
styleStep(collected, block) ==
    IF ~(HasTranslated(block) /\ block.translatedText # <<>>) THEN collected
    ELSE LET text == trim(block.originalText)
         IN  IF includePair(text, Len(collected))
             THEN Append(collected, styleExample(text, block))
             ELSE collected

\* for (const block of blocks) { ... }, from (1-based) i on, with the break
RECURSIVE styleFrom(_, _, _)
styleFrom(pairs, i, collected) ==
    IF i > Len(pairs) THEN collected
    ELSE LET next == styleStep(collected, pairs[i])
         IN  IF HasTranslated(pairs[i]) /\ pairs[i].translatedText # <<>>
                /\ Len(next) >= StyleHardLimit
             THEN next
             ELSE styleFrom(pairs, i + 1, next)

extractStyleExamples(originalContent, translatedContent) ==
    styleFrom(alignSrts(originalContent, translatedContent), 1, <<>>)

---------------------------------------------------------------------------
(* Example sampler: src/services/db.ts                                      *)

SamplePerProject  == 10   \* validBlocks.slice(0, 10)
MinOriginalLength == 10   \* b.originalText.length > 10

\* The keys of the object store in key order (store.getAll() returns the records
\* sorted by key).
KeyOrder == <<"a", "b", "c", "d", "e">>

\* store.getAll()
getAll(st) ==
    LET keys == SelectSeq(KeyOrder, LAMBDA k : k \in DOMAIN st)
    IN  [i \in 1..Len(keys) |-> st[keys[i]]]

\* A comparator that puts the oldest project first.
sortsBeforeOldestFirst(a, b) == a.createdAt <= b.createdAt

\* Whether a stays before b when a precedes b in the array and the comparator
\* (a, b) => b.createdAt - a.createdAt decides (Array.prototype.sort is stable).
sortsBefore(a, b) == a.createdAt >= b.createdAt

\* projects.sort(...): stable insertion of ps[n] into the sorted ps[1..n-1]
RECURSIVE sortProjects(_, _)
sortProjects(ps, n) ==
    IF n = 0 THEN <<>>
    ELSE LET sorted == sortProjects(ps, n - 1)
             stay == SelectSeq(Indices(sorted), LAMBDA i :
                         \A j \in 1..i : sortsBefore(sorted[j], ps[n]))
             k == Len(stay)
         IN  SubSeq(sorted, 1, k) \o <<ps[n]>> \o SubSeq(sorted, k + 1, Len(sorted))

getAllProjects(st) == LET ps == getAll(st) IN sortProjects(ps, Len(ps))

isExternalImport(p) == "isExternalImport" \in DOMAIN p /\ p.isExternalImport

\* b.translatedText is truthy
hasTranslation(b) == HasTranslated(b) /\ b.translatedText # <<>>

\* A project filter that keeps imported projects only.
isImportedProject(p) == isExternalImport(p)

\* p.isExternalImport || p.blocks.some(b => b.translatedText)
isTrainingProject(p) ==
    isExternalImport(p) \/ \E i \in 1..Len(p.blocks) : hasTranslation(p.blocks[i])

\* b.originalText.match(/^\d+$/)
allDigits(s) == s # <<>> /\ \A i \in 1..Len(s) : s[i] \in Digits

\* A filter that lets a text of exactly 10 characters through.
isValidBlockAtLeastTen(b) ==
    /\ b.originalText # <<>>
    /\ hasTranslation(b)
    /\ Len(b.originalText) >= MinOriginalLength
    /\ ~allDigits(b.originalText)

\* the filter of validBlocks
isValidBlock(b) ==
    /\ b.originalText # <<>>
    /\ hasTranslation(b)
    /\ Len(b.originalText) > MinOriginalLength
    /\ ~allDigits(b.originalText)

\* validBlocks.slice(0, 10)
firstValidBlocks(p) ==
    LET validBlocks == SelectSeq(p.blocks, isValidBlock)
    IN  SubSeq(validBlocks, 1, Min(Len(validBlocks), SamplePerProject))

trainingExample(b) ==
    [original |-> flatten(b.originalText), translated |-> flatten(b.translatedText)]

\* The inner loop: push the blocks of one project; returned is TRUE when the
\* function returned from inside the loop.
RECURSIVE pushBlocks(_, _, _)
pushBlocks(collected, batch, lim) ==
    IF batch = <<>> THEN [examples |-> collected, returned |-> FALSE]
    ELSE LET more == Append(collected, trainingExample(batch[1]))
         IN  IF Len(more) >= lim THEN [examples |-> more, returned |-> TRUE]
             ELSE pushBlocks(more, Tail(batch), lim)

\* The outer loop: for (const project of trainingProjects)
RECURSIVE collectFrom(_, _, _)
collectFrom(trainingProjects, collected, lim) ==
    IF trainingProjects = <<>> THEN collected
    ELSE LET r == pushBlocks(collected, firstValidBlocks(trainingProjects[1]), lim)
         IN  IF r.returned THEN r.examples
             ELSE collectFrom(Tail(trainingProjects), r.examples, lim)

\* getTrainingExamples after `await getAllProjects()` resolved with ps
trainingExamplesOf(ps, lim) == collectFrom(SelectSeq(ps, isTrainingProject), <<>>, lim)

---------------------------------------------------------------------------
(* Inputs of the codec scenario                                            *)

MaxBlocks == 2        \* longest SrtBlock[] handed to stringifySRT
MaxCands  == 2        \* most candidate blocks in a raw SRT text

Arrow == <<SP, "-", "-", ">", SP>>

T001 == <<"0", ":", "0", "1">>
T002 == <<"0", ":", "0", "2">>

\* (startTime, endTime): canonical, with a leading blank, holding an arrow, empty
TimePairs == { <<T001, T002>>,
               <<<<SP>> \o T001, T002>>,
               <<T001, <<"2", "-", "-", ">", "3">>>>,
               <<<<>>, T002>> }

Absent == [absent |-> TRUE]

\* (originalText, translatedText or Absent)
TextPairs == { << <<"H", "i">>, Absent >>,
               << <<"a", NL, "b">>, <<"M", NL, "g">> >>,
               << <<"H", "i">>, <<>> >>,
               << <<"x", CR, "y">>, Absent >> }

BlockIds == {7, -12}

mkBlock(id, times, texts) ==
    IF texts[2] = Absent
    THEN [id |-> id, startTime |-> times[1], endTime |-> times[2],
          originalText |-> texts[1]]
    ELSE [id |-> id, startTime |-> times[1], endTime |-> times[2],
          originalText |-> texts[1], translatedText |-> texts[2]]

BlockUniverse ==
    { mkBlock(id, tm, tx) : id \in BlockIds, tm \in TimePairs, tx \in TextPairs }

SeqsUpTo(S, n) == UNION { [1..k -> S] : k \in 0..n }

\* Raw candidate blocks of an SRT file: two valid cues (the second with CRLF line
\* ends, no blanks around the arrow, blanks around the text), then a cue whose id
\* starts with digits and whose timing line holds two arrows, three malformed ones,
\* a cue of two text lines, a cue whose id is written with leading zeros and a
\* cue with white space around its times and a blank first text line.
RawCandidates ==
    { <<"1", NL>> \o T001 \o Arrow \o T002 \o <<NL, "H", "i">>,
      <<"2", CR, NL>> \o T001 \o <<"-", "-", ">">> \o T002
          \o <<CR, NL, SP, "S", "o", CR, NL, "l", "o", SP>>,
      <<"1", "2", "a", NL>> \o T001 \o Arrow \o T002 \o Arrow \o <<"9", NL, "O", "k">>,
      <<"x", NL>> \o T001 \o Arrow \o T002 \o <<NL, "N", "o">>,
      <<"3", NL>> \o T001 \o <<SP>> \o T002 \o <<NL, "N", "o">>,
      <<"4", NL>> \o T001 \o Arrow \o T002,
      <<"1", "0", NL>> \o T001 \o Arrow \o T002 \o <<NL, "a", SP, NL, SP, "b">>,
      <<"0", "0", "7", NL>> \o T001 \o Arrow \o T002 \o <<NL, "H", "i">>,
      <<"5", NL, TAB>> \o T001 \o Arrow \o T002 \o <<SP, NL, SP, NL, "x">> }

Separators == { <<NL, NL>>, <<NL, NL, NL>>, <<CR, NL, CR, NL>>, <<NL>> }

RawContents ==
    { join(cs, sep) : cs \in SeqsUpTo(RawCandidates, MaxCands), sep \in Separators }

\* "1\n00:00:01,000 --> 00:00:02,000\nHello World\n\n2\n00:00:03,000 --> 00:00:04,000\nGoodbye"
EndToEndInput ==
    <<"1", NL>>
        \o <<"0", "0", ":", "0", "0", ":", "0", "1", ",", "0", "0", "0", SP, "-", "-", ">", SP, "0", "0", ":", "0", "0", ":", "0", "2", ",", "0", "0", "0", NL>>
        \o <<"H", "e", "l", "l", "o", SP, "W", "o", "r", "l", "d">>
    \o <<NL, NL>> \o
    <<"2", NL>>
        \o <<"0", "0", ":", "0", "0", ":", "0", "3", ",", "0", "0", "0", SP, "-", "-", ">", SP, "0", "0", ":", "0", "0", ":", "0", "4", ",", "0", "0", "0", NL>>
        \o <<"G", "o", "o", "d", "b", "y", "e">>

---------------------------------------------------------------------------
(* Codec scenario: a caller that serializes blocks, parses text, and        *)
(* serializes what it parsed (App.handleFileSelect / App.handleDownload).   *)

idleAlign   == /\ originalSrt = <<>> /\ translatedSrt = <<>> /\ aligned = <<>>
               /\ refMap = <<>> /\ cursor = 0
idleSampler == store = <<>> /\ projects = <<>> /\ limit = 0
idlePure    == heap = <<>> /\ calls = <<>>
idleTranslate == /\ resultBlocks = <<>> /\ blocksToTranslate = <<>> /\ batchStart = 0
                 /\ progress = <<>> /\ prefilled = <<>> /\ referenceMap = <<>>
                 /\ outcomes = <<>>
idleApp     == status = "idle" /\ file = <<>> /\ srtBlocks = <<>> /\ edits = <<>>

InitCodec ==
    /\ \/ pc = "blocks" /\ blocks \in SeqsUpTo(BlockUniverse, MaxBlocks) /\ content = <<>>
       \/ pc = "text" /\ blocks = <<>> /\ content \in RawContents \cup {EndToEndInput}
    /\ parsed = <<>>
    /\ examples = <<>>
    /\ idleAlign /\ idleSampler /\ idlePure /\ idleTranslate /\ idleApp

\* The texts typed into the editor: a new translation, and none at all.
EditedTexts == { <<"E", "d">>, <<>> }

\* { ...block, originalText: newText }
withOriginalText(b, newText) == [b EXCEPT !.originalText = newText]

\* { ...block, translatedText: newText }
withTranslatedText(b, newText) ==
    [f \in DOMAIN b \cup {"translatedText"} |->
        IF f = "translatedText" THEN newText ELSE b[f]]

\* handleTextChange(id, newText), once before the download
HandleTextChange ==
    /\ pc = "blocks"
    /\ \E id \in BlockIds \cup {1}, newText \in EditedTexts :
          blocks' = [i \in 1..Len(blocks) |->
                        IF blocks[i].id = id THEN withTranslatedText(blocks[i], newText)
                        ELSE blocks[i]]
    /\ pc' = "edited"
    /\ UNCHANGED <<content, parsed, examples, alignVars, samplerVars, pureVars, translateVars, appVars>>

\* content = stringifySRT(blocks)
StringifySRT ==
    /\ pc \in {"blocks", "edited"}
    /\ content' = stringifySRT(blocks)
    /\ pc' = "serialized"
    /\ UNCHANGED <<blocks, parsed, examples, alignVars, samplerVars, pureVars, translateVars, appVars>>

\* parsed = parseSRT(content), of a text that stringifySRT produced
ReparseSRT ==
    /\ pc = "serialized"
    /\ parsed' = parseSRT(content)
    /\ pc' = "reparsed"
    /\ UNCHANGED <<blocks, content, examples, alignVars, samplerVars, pureVars, translateVars, appVars>>

\* parsed = parseSRT(content), of a raw text
ParseSRT ==
    /\ pc = "text"
    /\ parsed' = parseSRT(content)
    /\ pc' = "parsed"
    /\ UNCHANGED <<blocks, content, examples, alignVars, samplerVars, pureVars, translateVars, appVars>>

\* the parsed blocks become the blocks to serialize (setSrtBlocks(parsed))
SetSrtBlocks ==
    /\ pc = "parsed"
    /\ blocks' = parsed
    /\ pc' = "blocks"
    /\ UNCHANGED <<content, parsed, examples, alignVars, samplerVars, pureVars, translateVars, appVars>>

NextCodec == StringifySRT \/ ReparseSRT \/ ParseSRT \/ SetSrtBlocks \/ HandleTextChange

SpecCodec == InitCodec /\ [][NextCodec]_vars

---------------------------------------------------------------------------
(* Claims about the codec                                                  *)

SingleLine(s) == \A i \in 1..Len(s) : s[i] \notin {NL, CR}

\* non-empty, no blank line, no leading or trailing white space
PlainText(t) ==
    /\ t # <<>>
    /\ t[1] \notin WhiteSpace /\ t[Len(t)] \notin WhiteSpace
    /\ \A i \in 1..(Len(t) - 1) : ~(t[i] = NL /\ t[i + 1] = NL)

\* A well-formed block in the words of the round-trip property: integer id,
\* single-line timestamps, plain text.
WellFormedAsClaimed(b) ==
    /\ b.id \in Int
    /\ SingleLine(b.startTime) /\ SingleLine(b.endTime)
    /\ PlainText(b.originalText)
    /\ HasTranslated(b) => PlainText(b.translatedText)

\* What the round trip needs besides: timestamps that are trimmed and hold no
\* arrow, and text without carriage returns.
WellFormed(b) ==
    /\ WellFormedAsClaimed(b)
    /\ trim(b.startTime) = b.startTime /\ trim(b.endTime) = b.endTime
    /\ ~includesArrow(b.startTime) /\ ~includesArrow(b.endTime)
    /\ \A i \in 1..Len(b.originalText) : b.originalText[i] # CR
    /\ HasTranslated(b) => \A i \in 1..Len(b.translatedText) : b.translatedText[i] # CR

\* translatedText when present, else originalText
ExpectedText(b) == IF HasTranslated(b) THEN b.translatedText ELSE b.originalText

RoundTripOf(bs, out) ==
    /\ Len(out) = Len(bs)
    /\ \A i \in 1..Len(bs) :
          out[i] = [id |-> bs[i].id, startTime |-> bs[i].startTime,
                    endTime |-> bs[i].endTime, originalText |-> ExpectedText(bs[i])]

\* C1 (as stated): for every sequence of blocks with integer ids, single-line
\* timestamps and plain text, parseSRT(stringifySRT(B)) has the ids, times and
\* texts of B.
C1_RoundTripAsClaimed ==
    (pc = "reparsed" /\ \A i \in 1..Len(blocks) : WellFormedAsClaimed(blocks[i]))
        => RoundTripOf(blocks, parsed)

\* C1 (amended): the round trip holds when, in addition, the timestamps carry no
\* surrounding white space and no arrow and the texts no carriage return; and then
\* blocks that came out of parseSRT (no translatedText) come back unchanged.
C1_RoundTrip ==
    (pc = "reparsed" /\ \A i \in 1..Len(blocks) : WellFormed(blocks[i]))
        => /\ RoundTripOf(blocks, parsed)
           /\ (\A i \in 1..Len(blocks) : ~HasTranslated(blocks[i])) => parsed = blocks

C1_Witness ==
    /\ pc = "reparsed"
    /\ Len(blocks) = 2
    /\ \A i \in 1..Len(blocks) : WellFormed(blocks[i])
    /\ HasTranslated(blocks[1]) /\ ~HasTranslated(blocks[2])
    /\ blocks[1].id < 0
    /\ \E i \in 1..Len(blocks[1].translatedText) : blocks[1].translatedText[i] = NL
    /\ parsed[1].originalText = blocks[1].translatedText

\* The candidate blocks of a content, and the lines of a candidate.
CandidatesOf(text) == splitBlocks(normalizeLineEndings(text))
LinesOf(cand) == splitLines(trim(cand))

Without(s, k) == SubSeq(s, 1, k - 1) \o SubSeq(s, k + 1, Len(s))

\* An integer: an optionally signed run of decimal digits, and nothing else.
IsInteger(line) ==
    LET body == IF line # <<>> /\ line[1] \in {"-", "+"} THEN Tail(line) ELSE line
    IN  body # <<>> /\ \A i \in 1..Len(body) : body[i] \in Digits

IntegerOf(line) ==
    IF line[1] = "-" THEN 0 - DigitsValue(Tail(line), 0)
    ELSE IF line[1] = "+" THEN DigitsValue(Tail(line), 0)
    ELSE DigitsValue(line, 0)

\* fewer than 3 lines, a first line that is not an integer, or a second line
\* without '-->'
Malformed(cand) ==
    LET lines == LinesOf(cand)
    IN  \/ Len(lines) < 3
        \/ ~IsInteger(lines[1])
        \/ ~includesArrow(lines[2])

\* C11: a candidate with fewer than 3 lines, a first line that is not an integer
\* or a second line without '-->' yields no block, and parseSRT of the content
\* equals parseSRT of the content without that candidate.
C11_SilentDrop ==
    pc = "parsed" =>
        LET cands == CandidatesOf(content)
        IN  \A k \in 1..Len(cands) :
                Malformed(cands[k]) =>
                    /\ parseCandidate(cands[k]) = <<>>
                    /\ parsed = parseSRT(join(Without(cands, k), <<NL, NL>>))

\* C19: parseSRT emits a block for a candidate only when its first line is an
\* integer (an optionally signed run of decimal digits, nothing else), and the
\* id of the block is that integer.
C19_IntegerIdLine ==
    pc = "parsed" =>
        /\ \A k \in 1..Len(CandidatesOf(content)) :
              LET cand == CandidatesOf(content)[k]
              IN  parseCandidate(cand) # <<>> =>
                      /\ IsInteger(LinesOf(cand)[1])
                      /\ parseCandidate(cand)[1].id = IntegerOf(LinesOf(cand)[1])
        /\ \A n \in 1..Len(parsed) :
              \E k \in 1..Len(CandidatesOf(content)) :
                  LET first == LinesOf(CandidatesOf(content)[k])[1]
                  IN  IsInteger(first) /\ parsed[n].id = IntegerOf(first)

\* 'id, newline, startTime --> endTime, newline, text' for each block, joined by
\* one empty line, text being translatedText whenever it is present.
SerializedAsClaimed(bs) ==
    join([i \in 1..Len(bs) |->
             numberToString(bs[i].id) \o <<NL>> \o bs[i].startTime
                 \o <<SP, "-", "-", ">", SP>> \o bs[i].endTime \o <<NL>>
                 \o ExpectedText(bs[i])],
         <<NL, NL>>)

\* C20: stringifySRT writes every block with its translatedText whenever that is
\* present, whatever string it is (also one typed in the editor), and with its
\* originalText only when translatedText is absent.
C20_SerializeTextChoice ==
    pc = "serialized" => content = SerializedAsClaimed(blocks)

\* A plain decimal id: digits only, written without leading zeros.
PlainDecimal(line) ==
    /\ line # <<>>
    /\ \A i \in 1..Len(line) : line[i] \in Digits
    /\ Len(line) > 1 => line[1] # "0"

\* A timing line written 'start --> end': one arrow, one blank on each side of it,
\* start and end without surrounding white space.
CanonicalTiming(line) ==
    LET at == SelectSeq(Indices(line), LAMBDA i : ArrowAt(line, i))
    IN  /\ Len(at) = 1
        /\ at[1] >= 2 /\ line[at[1] - 1] = SP
        /\ at[1] + 3 <= Len(line) /\ line[at[1] + 3] = SP
        /\ LET start == SubSeq(line, 1, at[1] - 2)
               end == SubSeq(line, at[1] + 4, Len(line))
           IN  trim(start) = start /\ trim(end) = end

CanonicalCue(cue) ==
    LET lines == splitLines(cue)
    IN  /\ trim(cue) = cue
        /\ Len(lines) >= 3
        /\ PlainDecimal(lines[1])
        /\ CanonicalTiming(lines[2])

\* Canonical SRT text: LF line endings, cues separated by exactly one empty line,
\* no leading or trailing white space, plain decimal ids, canonical timing lines.
Canonical(x) ==
    /\ \A i \in 1..Len(x) : x[i] # CR
    /\ \A i \in 1..(Len(x) - 2) : ~(x[i] = NL /\ x[i + 1] = NL /\ x[i + 2] = NL)
    /\ \A k \in 1..Len(splitBlocks(x)) : CanonicalCue(splitBlocks(x)[k])

CueCandidates(text) ==
    SelectSeq(CandidatesOf(text), LAMBDA cand :
        LET lines == LinesOf(cand)
        IN  /\ Len(lines) >= 3
            /\ ~isNaN(parseInt(lines[1]))
            /\ includesArrow(lines[2]))

Trimmed(s) == s = <<>> \/ (s[1] \notin WhiteSpace /\ s[Len(s)] \notin WhiteSpace)

BreakStarts(x) ==
    SelectSeq(Indices(x), LAMBDA i : x[i] = CR \/ (x[i] = NL /\ (i = 1 \/ x[i - 1] # CR)))

BreakEnd(x, i) == IF x[i] = CR /\ i < Len(x) /\ x[i + 1] = NL THEN i + 1 ELSE i

\* The lines of a text, whichever way its line breaks are written.
LinesOfText(x) ==
    LET starts == BreakStarts(x)
    IN  Pieces(x, starts, [k \in 1..Len(starts) |-> BreakEnd(x, starts[k])])

\* LF, a lone CR, CRLF
BreakForms == { <<NL>>, <<CR>>, <<CR, NL>> }

\* The text with the line break that starts at i written as form.
Rewritten(x, i, form) == SubSeq(x, 1, i - 1) \o form \o SubSeq(x, BreakEnd(x, i) + 1, Len(x))

\* The text with n empty lines inserted after the line break that starts at i.
WithEmptyLines(x, i, n) ==
    SubSeq(x, 1, BreakEnd(x, i)) \o [k \in 1..n |-> NL] \o SubSeq(x, BreakEnd(x, i) + 1, Len(x))

\* The line breaks directly followed by another one: those of the empty lines
\* between two cues.
SeparatorBreaks(x) ==
    { i \in 1..Len(x) :
        /\ \E k \in 1..Len(BreakStarts(x)) : BreakStarts(x)[k] = i
        /\ BreakEnd(x, i) < Len(x)
        /\ x[BreakEnd(x, i) + 1] \in {CR, NL} }

MaxInserted == 2      \* most empty lines inserted at one place

\* C22: parseSRT(x) is unchanged when one line break of x, or every one, is
\* written as CRLF, as a lone CR or as LF (the text read as the same lines), and
\* when empty lines are inserted between two cues.
C22_SeparatorNormalization ==
    pc = "parsed" =>
        LET lines == LinesOfText(content)
            starts == BreakStarts(content)
        IN  /\ \A form \in BreakForms :
                  /\ parseSRT(join(lines, form)) = parsed
                  /\ \A k \in 1..Len(starts) :
                        LET y == Rewritten(content, starts[k], form)
                        IN  LinesOfText(y) = lines => parseSRT(y) = parsed
            /\ \A i \in SeparatorBreaks(content) : \A n \in 1..MaxInserted :
                  parseSRT(WithEmptyLines(content, i, n)) = parsed

\* two cues written with CRLF and separated by one empty line: the same blocks
\* with lone CRs throughout, and with two more empty lines between the cues
C22_Witness ==
    /\ pc = "parsed"
    /\ Len(parsed) = 2
    /\ \A i \in 1..Len(content) : content[i] = NL => (i > 1 /\ content[i - 1] = CR)
    /\ LET y == join(LinesOfText(content), <<CR>>)
       IN  y # content /\ parseSRT(y) = parsed
    /\ \E i \in SeparatorBreaks(content) :
          /\ Len(CandidatesOf(WithEmptyLines(content, i, 2))) = 2
          /\ parseSRT(WithEmptyLines(content, i, 2)) = parsed

---------------------------------------------------------------------------
(* Aligner scenario: alignSrts on two tracks                                *)

MaxOrig  == 2         \* most cues in the original track
MaxTrans == 2         \* most cues in the translated track

AlignOrigIds  == {1, 2}
AlignTransIds == {1, 2, 3}
AlignStarts   == {T001, T002}

\* The SRT text of a track whose i-th cue has id cues[i][1], start time cues[i][2]
\* and a text that names the track and the position (o1, o2, ... / t1, t2, ...).
trackOf(cues, letter) ==
    stringifySRT([i \in 1..Len(cues) |->
        [id |-> cues[i][1], startTime |-> cues[i][2], endTime |-> <<"9">>,
         originalText |-> <<letter, DigitChars[i + 1]>>]])

OrigTracks  == { trackOf(c, "o") : c \in SeqsUpTo(AlignOrigIds \X AlignStarts, MaxOrig) }
TransTracks == { trackOf(c, "t") : c \in SeqsUpTo(AlignTransIds \X AlignStarts, MaxTrans) }

idleCodec == blocks = <<>> /\ content = <<>> /\ parsed = <<>>

InitAlign ==
    /\ pc = "ready"
    /\ originalSrt \in OrigTracks
    /\ translatedSrt \in TransTracks
    /\ aligned = <<>> /\ refMap = <<>> /\ cursor = 0 /\ examples = <<>>
    /\ idleCodec /\ idleSampler /\ idlePure /\ idleTranslate /\ idleApp

\* aligned = alignSrts(originalSrt, translatedSrt)
AlignSrts ==
    /\ pc = "ready"
    /\ aligned' = alignSrts(originalSrt, translatedSrt)
    /\ pc' = "aligned"
    /\ UNCHANGED <<originalSrt, translatedSrt, refMap, cursor, examples,
                   codecVars, samplerVars, pureVars, translateVars, appVars>>

NextAlign == AlignSrts

SpecAlign == InitAlign /\ [][NextAlign]_vars

---------------------------------------------------------------------------
(* Claims about the aligner                                                 *)

OrigBlocks  == parseSRT(originalSrt)
TransBlocks == parseSRT(translatedSrt)

\* id, startTime, endTime and originalText of a block
Core(b) == [id |-> b.id, startTime |-> b.startTime, endTime |-> b.endTime,
            originalText |-> b.originalText]

HasId(bs, id) == \E k \in 1..Len(bs) : bs[k].id = id

\* the last block of bs with that id
LastWithId(bs, id) ==
    bs[CHOOSE k \in 1..Len(bs) :
          bs[k].id = id /\ \A j \in (k + 1)..Len(bs) : bs[j].id # id]

\* C2: when every original block has a same-id block in the translated track,
\* alignSrts returns len(A) pairs and the i-th pair is the i-th original block.
C2_IdAlignmentExact ==
    pc = "aligned" =>
        LET A == OrigBlocks
            B == TransBlocks
        IN  (\A i \in 1..Len(A) : HasId(B, A[i].id))
                => /\ Len(aligned) = Len(A)
                   /\ \A i \in 1..Len(A) : Core(aligned[i]) = A[i]

\* full id coverage with the translated track in another order and with other times
C2_Witness ==
    /\ pc = "aligned"
    /\ LET A == OrigBlocks
           B == TransBlocks
       IN  /\ Len(A) = 2 /\ Len(B) = 2
           /\ A[1].id # A[2].id
           /\ B[1].id = A[2].id /\ B[2].id = A[1].id
           /\ B[1].startTime # A[1].startTime
           /\ Len(aligned) = 2

\* ids shifted by one non-zero offset, start times different at every index
ShiftedAndRetimed(A, B) ==
    /\ Len(A) = Len(B)
    /\ \E d \in {y - x : x \in AlignOrigIds, y \in AlignTransIds} \ {0} :
          \A i \in 1..Len(A) : B[i].id = A[i].id + d
    /\ \A i \in 1..Len(A) : B[i].startTime # A[i].startTime

\* C3 (as stated): for tracks with shifted ids and different start times at every
\* index, alignSrts returns strictly fewer pairs than len(A).
C3_FallbackSafetyAsClaimed ==
    pc = "aligned" =>
        LET A == OrigBlocks
        IN  ShiftedAndRetimed(A, TransBlocks) => Len(aligned) < Len(A)

\* C3 (amended): the same for a non-empty original track.
C3_FallbackSafety ==
    pc = "aligned" =>
        LET A == OrigBlocks
        IN  (Len(A) > 0 /\ ShiftedAndRetimed(A, TransBlocks)) => Len(aligned) < Len(A)

\* two shifted cues of which one still finds its id: one pair, not two
C3_Witness ==
    /\ pc = "aligned"
    /\ LET A == OrigBlocks
           B == TransBlocks
       IN  /\ Len(A) = 2
           /\ ShiftedAndRetimed(A, B)
           /\ HasId(B, A[2].id)
           /\ Len(aligned) = 1

\* The pairs emitted for original block i (the texts of a track are distinct).
PairsOf(A, i) == { k \in 1..Len(aligned) : aligned[k].originalText = A[i].originalText }

FallbackOk(A, B, i) ==
    /\ ~HasId(B, A[i].id)
    /\ i <= Len(B)
    /\ B[i].startTime = A[i].startTime

\* C4: original block i yields a pair iff the translated track has its id, or has
\* not, reaches index i and has the same start time there; the pair's
\* translatedText is the text of the id-matched block (the last one with the id),
\* respectively of the block at index i.
C4_MatchRule ==
    pc = "aligned" =>
        LET A == OrigBlocks
            B == TransBlocks
        IN  \A i \in 1..Len(A) :
                /\ (PairsOf(A, i) # {}) <=> (HasId(B, A[i].id) \/ FallbackOk(A, B, i))
                /\ \A k \in PairsOf(A, i) :
                      aligned[k].translatedText =
                          IF HasId(B, A[i].id)
                          THEN LastWithId(B, A[i].id).originalText
                          ELSE B[i].originalText

\* one block matched by id although its positional candidate has the same start
\* time, one matched by position, in the same run
C4_Witness ==
    /\ pc = "aligned"
    /\ LET A == OrigBlocks
           B == TransBlocks
       IN  /\ Len(A) = 2 /\ Len(B) = 2
           /\ HasId(B, A[1].id)
           /\ B[1].id # A[1].id
           /\ B[1].startTime = A[1].startTime
           /\ aligned[1].translatedText = B[2].originalText
           /\ FallbackOk(A, B, 2)
           /\ Len(aligned) = 2 /\ aligned[2].translatedText = B[2].originalText

\* C5: the output is an order-preserving subsequence of the original blocks, each
\* pair keeping id, times and text and carrying a translatedText; it is never
\* longer than the original track.
C5_Subsequence ==
    pc = "aligned" =>
        LET A == OrigBlocks
        IN  /\ Len(aligned) <= Len(A)
            /\ \E f \in [1..Len(aligned) -> 1..Len(A)] :
                  /\ \A k \in 1..Len(aligned) : Core(aligned[k]) = A[f[k]]
                  /\ \A k \in 1..(Len(aligned) - 1) : f[k] < f[k + 1]
            /\ \A k \in 1..Len(aligned) :
                  HasTranslated(aligned[k]) /\ aligned[k].translatedText # <<>>

\* the first original block is dropped, the second is emitted
C5_Witness ==
    /\ pc = "aligned"
    /\ LET A == OrigBlocks
       IN  /\ Len(A) = 2
           /\ Len(aligned) = 1
           /\ Core(aligned[1]) = A[2]

UniqueIds(bs) == \A i, j \in 1..Len(bs) : i # j => bs[i].id # bs[j].id

\* The pairs whose translatedText is the text of translated block k (the texts of
\* a track are distinct).
SuppliedBy(B, k) == { p \in 1..Len(aligned) : aligned[p].translatedText = B[k].originalText }

\* C23: when the ids are unique within each track, no block of the translated
\* track supplies the translatedText of more than one pair of the output.
C23_BlockForBlock ==
    pc = "aligned" =>
        LET A == OrigBlocks
            B == TransBlocks
        IN  (UniqueIds(A) /\ UniqueIds(B))
                => \A k \in 1..Len(B) : Cardinality(SuppliedBy(B, k)) <= 1

---------------------------------------------------------------------------
(* Reference-map scenario: createReferenceMap on two reference files        *)

MaxRefOrig  == 2      \* most cues in the reference original
MaxRefTrans == 2      \* most cues in the reference translation

\* (id, startTime) of a cue
RefSlots == { <<1, T001>>, <<2, T002>> }

\* cue texts: the second original differs from the first by a leading blank only;
\* the last one starts with a line of white space
RefOrigTexts  == { <<"a">>, <<SP, "a">>, <<"b">>, <<TAB, NL, "b">> }
RefTransTexts == { <<"x">>, <<"y", NL, SP, "z">> }

\* The SRT text of a track whose i-th cue has slot cues[i][1] and text cues[i][2].
refTrackOf(cues) ==
    stringifySRT([i \in 1..Len(cues) |->
        [id |-> cues[i][1][1], startTime |-> cues[i][1][2], endTime |-> <<"9">>,
         originalText |-> cues[i][2]]])

RefOrigTracks  == { refTrackOf(c) : c \in SeqsUpTo(RefSlots \X RefOrigTexts, MaxRefOrig) }
RefTransTracks == { refTrackOf(c) : c \in SeqsUpTo(RefSlots \X RefTransTexts, MaxRefTrans) }

InitRef ==
    /\ pc = "ready"
    /\ originalSrt \in RefOrigTracks
    /\ translatedSrt \in RefTransTracks
    /\ aligned = <<>> /\ refMap = EmptyMap /\ cursor = 0 /\ examples = <<>>
    /\ idleCodec /\ idleSampler /\ idlePure /\ idleTranslate /\ idleApp

\* referenceMap = createReferenceMap(orgText, transText)
CreateReferenceMap ==
    /\ pc = "ready"
    /\ refMap' = createReferenceMap(originalSrt, translatedSrt)
    /\ pc' = "mapped"
    /\ UNCHANGED <<originalSrt, translatedSrt, aligned, cursor, examples,
                   codecVars, samplerVars, pureVars, translateVars, appVars>>

NextRef == CreateReferenceMap

SpecRef == InitRef /\ [][NextRef]_vars

---------------------------------------------------------------------------
(* Claims about createReferenceMap                                          *)

KeyAt(A, i)   == trim(A[i].originalText)
ValueAt(B, i) == trim(B[i].originalText)

\* C6: when one trimmed original text occurs at positions i < j below
\* min(len(A), len(B)) with different translations, j being its last occurrence
\* there, the map holds the trimmed translation at position j.
C6_LastWriterWins ==
    pc = "mapped" =>
        LET A == OrigBlocks
            B == TransBlocks
            n == Min(Len(A), Len(B))
        IN  \A i, j \in 1..n :
                (/\ i < j
                 /\ KeyAt(A, i) = KeyAt(A, j)
                 /\ ValueAt(B, i) # ValueAt(B, j)
                 /\ \A h \in (j + 1)..n : KeyAt(A, h) # KeyAt(A, j))
                    => /\ KeyAt(A, j) \in DOMAIN refMap
                       /\ refMap[KeyAt(A, j)] = ValueAt(B, j)

\* the same text twice (once with a leading blank), translated differently
C6_Witness ==
    /\ pc = "mapped"
    /\ LET A == OrigBlocks
           B == TransBlocks
       IN  /\ Len(A) = 2 /\ Len(B) = 2
           /\ A[1].originalText # A[2].originalText
           /\ KeyAt(A, 1) = KeyAt(A, 2)
           /\ ValueAt(B, 1) # ValueAt(B, 2)
           /\ refMap[KeyAt(A, 1)] = ValueAt(B, 2)

\* C7: the entries are exactly those of the positional pairs (A[i], B[i]),
\* i < min(len(A), len(B)): the keys are the trimmed original texts at those
\* positions, each value is the trimmed text of the translated block at a position
\* that holds the key, whatever the ids and the times; later blocks add nothing.
C7_PositionalPairs ==
    pc = "mapped" =>
        LET A == OrigBlocks
            B == TransBlocks
            n == Min(Len(A), Len(B))
        IN  /\ DOMAIN refMap = { KeyAt(A, i) : i \in 1..n }
            /\ \A k \in DOMAIN refMap :
                  \E i \in 1..n : KeyAt(A, i) = k /\ refMap[k] = ValueAt(B, i)

\* tracks of different length whose ids pair the cues crosswise: the map follows
\* the positions, and the cue beyond the shorter track adds no key
C7_Witness ==
    /\ pc = "mapped"
    /\ LET A == OrigBlocks
           B == TransBlocks
       IN  /\ Len(A) = 2 /\ Len(B) = 1
           /\ B[1].id = A[2].id /\ B[1].id # A[1].id
           /\ B[1].startTime # A[1].startTime
           /\ KeyAt(A, 1) # KeyAt(A, 2)
           /\ DOMAIN refMap = { KeyAt(A, 1) }
           /\ refMap[KeyAt(A, 1)] = ValueAt(B, 1)


\* C30: every block parseSRT emits has a character that is not white space in
\* its originalText, so no positional pair below min(len(A), len(B)) is
\* skipped: its trimmed key and value are non-empty and the key is in the map;
\* the size of the map is the number of distinct trimmed original texts at
\* those positions.
HasInk(text) == \E k \in 1..Len(text) : text[k] \notin WhiteSpace

C30_NoPairSkipped ==
    pc = "mapped" =>
        LET A == OrigBlocks
            B == TransBlocks
            n == Min(Len(A), Len(B))
        IN  /\ \A i \in 1..Len(A) : HasInk(A[i].originalText)
            /\ \A i \in 1..Len(B) : HasInk(B[i].originalText)
            /\ \A i \in 1..n :
                  /\ KeyAt(A, i) # <<>>
                  /\ ValueAt(B, i) # <<>>
                  /\ KeyAt(A, i) \in DOMAIN refMap
            /\ Cardinality(DOMAIN refMap) = Cardinality({ KeyAt(A, i) : i \in 1..n })

\* two pairs whose original texts differ (one starts with a white line) but trim
\* to one key: a map of size 1
C30_Witness ==
    /\ pc = "mapped"
    /\ LET A == OrigBlocks
           B == TransBlocks
       IN  /\ Len(A) = 2 /\ Len(B) = 2
           /\ A[1].originalText = <<TAB, NL, "b">>
           /\ A[2].originalText = <<"b">>
           /\ Cardinality(DOMAIN refMap) = 1

---------------------------------------------------------------------------
(* Style-example scenario: extractStyleExamples on two reference files      *)

MaxStyleCues == 42    \* cues of a long reference file

Repeat(c, n) == [i \in 1..n |-> c]

TwoDigits(i) == <<DigitChars[(i \div 10) + 1], DigitChars[(i % 10) + 1]>>

\* The text of cue i, by kind: with a proper noun; 21 characters; 22 characters
\* with a line break between a lower-case and an upper-case letter; 20 characters
\* after a leading blank; short.
styleText(kind, i) ==
    CASE kind = "noun"  -> <<"a", SP, "B">> \o TwoDigits(i)
      [] kind = "long"  -> Repeat("x", 19) \o TwoDigits(i)
      [] kind = "break" -> <<"a", NL, "B">> \o Repeat("x", 17) \o TwoDigits(i)
      [] kind = "edge"  -> <<SP>> \o Repeat("x", 18) \o TwoDigits(i)
      [] kind = "short" -> <<"n", "o">> \o TwoDigits(i)

StyleKinds == {"noun", "long", "break", "edge", "short"}

\* A file shape: the first `lead` cues are of kind `first`, the next cue is of kind
\* `next`, the others of kind `rest`; the translated file lacks cue `gap` (0: none).
StyleShapes ==
    [n : {3, MaxStyleCues}, lead : {0, 19, 20}, first : {"noun", "long"},
     next : StyleKinds, rest : {"noun", "long", "break"}, gap : {0, 2}]

kindAt(shape, i) ==
    IF i <= shape.lead THEN shape.first
    ELSE IF i = shape.lead + 1 THEN shape.next ELSE shape.rest

styleOriginal(shape) ==
    stringifySRT([i \in 1..shape.n |->
        [id |-> i, startTime |-> TwoDigits(i), endTime |-> <<"9">>,
         originalText |-> styleText(kindAt(shape, i), i)]])

styleTranslated(shape) ==
    stringifySRT(SelectSeq(
        [i \in 1..shape.n |->
            [id |-> i, startTime |-> TwoDigits(i), endTime |-> <<"9">>,
             originalText |-> <<"t", NL>> \o TwoDigits(i)]],
        LAMBDA b : b.id # shape.gap))

InitStyle ==
    /\ pc = "ready"
    /\ \E shape \in StyleShapes :
          /\ originalSrt = styleOriginal(shape)
          /\ translatedSrt = styleTranslated(shape)
    /\ aligned = <<>> /\ refMap = EmptyMap /\ cursor = 0 /\ examples = <<>>
    /\ idleCodec /\ idleSampler /\ idlePure /\ idleTranslate /\ idleApp

\* const blocks = alignSrts(originalSrt, translatedSrt); const examples = []
ExtractStart ==
    /\ pc = "ready"
    /\ aligned' = alignSrts(originalSrt, translatedSrt)
    /\ cursor' = 1
    /\ examples' = <<>>
    /\ pc' = "extracting"
    /\ UNCHANGED <<originalSrt, translatedSrt, refMap, codecVars, samplerVars, pureVars, translateVars, appVars>>

\* one iteration of for (const block of blocks), the break at the hard limit included
ExtractStep ==
    /\ pc = "extracting"
    /\ cursor <= Len(aligned)
    /\ examples' = styleStep(examples, aligned[cursor])
    /\ IF HasTranslated(aligned[cursor]) /\ aligned[cursor].translatedText # <<>>
          /\ Len(examples') >= StyleHardLimit
       THEN pc' = "extracted" /\ cursor' = cursor
       ELSE pc' = pc /\ cursor' = cursor + 1
    /\ UNCHANGED <<originalSrt, translatedSrt, aligned, refMap, codecVars, samplerVars, pureVars, translateVars, appVars>>

\* the loop ran out of blocks: return examples
ExtractReturn ==
    /\ pc = "extracting"
    /\ cursor > Len(aligned)
    /\ pc' = "extracted"
    /\ UNCHANGED <<originalSrt, translatedSrt, aligned, refMap, cursor, examples,
                   codecVars, samplerVars, pureVars, translateVars, appVars>>

NextStyle == ExtractStart \/ ExtractStep \/ ExtractReturn

SpecStyle == InitStyle /\ [][NextStyle]_vars

---------------------------------------------------------------------------
(* Claims about extractStyleExamples                                        *)

\* What the example of each aligned pair shows as its original text.
FlatTexts == [k \in 1..Len(aligned) |-> flatten(trim(aligned[k].originalText))]

\* The aligned pairs an example may come from (the cue texts are distinct).
SourcesOf(flat, example) == { k \in 1..Len(flat) : flat[k] = example.original }

\* C8: at most 40 examples; an example at 0-based position 20 or later comes from
\* a pair whose original text matches the proper-noun pattern; a pair without the
\* pattern is admitted only for its length (over 20) and only at a position below 20.
C8_StyleCaps ==
    pc \in {"extracting", "extracted"} =>
        LET flat == FlatTexts
        IN  /\ Len(examples) <= StyleHardLimit
            /\ \A p \in 1..Len(examples) :
                  /\ SourcesOf(flat, examples[p]) # {}
                  /\ \A k \in SourcesOf(flat, examples[p]) :
                        \/ hasProperNoun(aligned[k].originalText)
                        \/ /\ p - 1 < StyleSoftLimit
                           /\ Len(trim(aligned[k].originalText)) > StyleLongText

\* 20 long cues fill the first 20 positions, the 21st cue is long (and a proper
\* noun once flattened) and is left out, 20 proper-noun cues follow: the loop
\* breaks at 40 examples with a cue still unread.
C8_Witness ==
    /\ pc = "extracted"
    /\ Len(examples) = StyleHardLimit
    /\ cursor < Len(aligned)
    /\ LET flat == FlatTexts
       IN  /\ ~hasProperNoun(aligned[20].originalText)
           /\ 20 \in SourcesOf(flat, examples[20])
           /\ ~hasProperNoun(aligned[21].originalText)
           /\ hasProperNoun(flat[21])
           /\ Len(trim(aligned[21].originalText)) > StyleLongText
           /\ \A p \in 1..Len(examples) : 21 \notin SourcesOf(flat, examples[p])
           /\ 22 \in SourcesOf(flat, examples[21])

\* The pairs chosen among the first upto pairs, as indices in alignment order:
\* walking from pair k on with `chosen` collected so far, until 40 are collected,
\* a pair is included if its trimmed original text matches the proper-noun
\* pattern, or else if fewer than 20 are collected and the text is longer than 20.
RECURSIVE SelectedFrom(_, _, _, _)
SelectedFrom(pairs, k, upto, chosen) ==
    IF k > upto \/ Len(chosen) >= 40 THEN chosen
    ELSE LET text == trim(pairs[k].originalText)
             include == \/ hasProperNoun(text)
                        \/ (Len(chosen) < 20 /\ Len(text) > 20)
         IN  SelectedFrom(pairs, k + 1, upto, IF include THEN Append(chosen, k) ELSE chosen)

\* C17: the examples are the pairs of alignSrts selected by that rule, in
\* alignment order (while the walk runs: those selected among the pairs walked).
C17_StyleSelection ==
    pc \in {"extracting", "extracted"} =>
        LET flat == FlatTexts
            walked == IF pc = "extracted" THEN Len(aligned) ELSE cursor - 1
            chosen == SelectedFrom(aligned, 1, walked, <<>>)
        IN  /\ Len(examples) = Len(chosen)
            /\ \A p \in 1..Len(chosen) :
                  /\ examples[p].original = flat[chosen[p]]
                  /\ examples[p].translated = flatten(aligned[chosen[p]].translatedText)

\* 19 long cues are included, the 20th cue is short and is skipped, the 21st is
\* long and becomes the 20th example, and every later long cue is skipped.
C17_Witness ==
    /\ pc = "extracted"
    /\ cursor > Len(aligned)
    /\ Len(aligned) > 22
    /\ Len(examples) = 20
    /\ Len(trim(aligned[20].originalText)) <= 20
    /\ Len(trim(aligned[22].originalText)) > 20
    /\ LET flat == FlatTexts
       IN  /\ examples[19].original = flat[19]
           /\ examples[20].original = flat[21]

---------------------------------------------------------------------------
(* Sampler scenario: getTrainingExamples over a stored project history      *)

MaxProjects == 3      \* most projects in the store
MaxLimit    == 12     \* largest limit tried, besides the default
DefaultLimit == 30    \* limit: number = 30

Limits == 0..MaxLimit \cup {DefaultLimit}

\* A translated cue text of more than 10 characters; every second one has a line break.
cueText(i, letter) ==
    <<"c", "u", "e", IF i % 2 = 0 THEN NL ELSE SP>> \o TwoDigits(i)
        \o <<SP, "o", "f", SP, letter>>

cueTranslation(i, letter) == <<"t", NL>> \o TwoDigits(i) \o <<letter>>

cue(i, text, translation) ==
    mkBlock(i, <<TwoDigits(i), <<"9">>>>, <<text, translation>>)

validCue(i, letter) == cue(i, cueText(i, letter), cueTranslation(i, letter))

\* A cue the sampler must skip: short, digits only (11 of them), not translated,
\* translated to the empty string, or exactly 10 characters long.
junkCue(i, letter) ==
    CASE i % 5 = 0 -> cue(i, <<"Y", "e", "s">>, cueTranslation(i, letter))
      [] i % 5 = 1 -> cue(i, Repeat("0", 9) \o TwoDigits(i), cueTranslation(i, letter))
      [] i % 5 = 2 -> cue(i, cueText(i, letter), Absent)
      [] i % 5 = 3 -> cue(i, cueText(i, letter), <<>>)
      [] i % 5 = 4 -> cue(i, <<"c", "u", "e", SP>> \o TwoDigits(i) \o <<SP, "o", "f", letter>>,
                          cueTranslation(i, letter))

\* The blocks of a project: ten valid cues; twelve valid cues, each behind a junk
\* cue; untranslated cues only (an imported file, or a draft).
projectBlocks(shape, letter) ==
    CASE shape = "ten"   -> [i \in 1..10 |-> validCue(i, letter)]
      [] shape = "mixed" -> [i \in 1..24 |-> IF i % 2 = 1 THEN junkCue((i + 1) \div 2, letter)
                                                          ELSE validCue(i \div 2, letter)]
      [] shape \in {"rawImport", "draft"} -> [i \in 1..2 |-> cue(i, cueText(i, letter), Absent)]

ProjectShapes == {"ten", "mixed", "rawImport", "draft"}

\* createdAt of the project in slot i: rising with the key, falling, or all equal
ClockPatterns == {"rising", "falling", "same"}

createdAtOf(clock, i) ==
    CASE clock = "rising" -> 100 + i
      [] clock = "falling" -> 100 - i
      [] clock = "same" -> 100

project(shape, clock, i) ==
    LET base == [id |-> KeyOrder[i], fileName |-> <<KeyOrder[i]>>,
                 createdAt |-> createdAtOf(clock, i),
                 blocks |-> projectBlocks(shape, KeyOrder[i])]
    IN  CASE shape = "draft" -> base
          [] shape = "ten" ->
                [f \in DOMAIN base \cup {"isExternalImport"} |->
                    IF f = "isExternalImport" THEN FALSE ELSE base[f]]
          [] OTHER ->
                [f \in DOMAIN base \cup {"isExternalImport"} |->
                    IF f = "isExternalImport" THEN TRUE ELSE base[f]]

\* The store holding projects of the given shapes under the first keys.
storeOf(shapes, clock) ==
    [k \in { KeyOrder[i] : i \in 1..Len(shapes) } |->
        LET i == CHOOSE j \in 1..Len(shapes) : KeyOrder[j] = k
        IN  project(shapes[i], clock, i)]

Histories ==
    { storeOf(shapes, clock) :
        shapes \in SeqsUpTo(ProjectShapes, MaxProjects), clock \in ClockPatterns }

InitSampler ==
    /\ pc = "idle"
    /\ store \in Histories
    /\ projects = <<>>
    /\ limit = 0
    /\ examples = <<>>
    /\ idleCodec /\ idleAlign /\ idlePure /\ idleTranslate /\ idleApp

\* getTrainingExamples(lim): const projects = await getAllProjects()
GetAllProjects ==
    /\ pc = "idle"
    /\ \E lim \in Limits : limit' = lim
    /\ projects' = getAllProjects(store)
    /\ pc' = "loaded"
    /\ UNCHANGED <<store, examples, codecVars, alignVars, pureVars, translateVars, appVars>>

\* getTrainingExamples: the filter, the two loops and the return
ReturnExamples ==
    /\ pc = "loaded"
    /\ examples' = trainingExamplesOf(projects, limit)
    /\ pc' = "sampled"
    /\ UNCHANGED <<store, projects, limit, codecVars, alignVars, pureVars, translateVars, appVars>>

NextSampler == GetAllProjects \/ ReturnExamples

SpecSampler == InitSampler /\ [][NextSampler]_vars

---------------------------------------------------------------------------
(* Claims about getTrainingExamples                                         *)

\* C9: getTrainingExamples(limit) never returns more than limit examples, for
\* every limit >= 0.
C9_SamplerBound == pc = "sampled" => Len(examples) <= limit

\* A block with both texts non-empty, an original text longer than 10 characters
\* that is not made of digits only.
ValidForTraining(b) ==
    /\ b.originalText # <<>>
    /\ HasTranslated(b) /\ b.translatedText # <<>>
    /\ Len(b.originalText) > 10
    /\ \E i \in 1..Len(b.originalText) : b.originalText[i] \notin Digits

RECURSIVE ConcatAll(_)
ConcatAll(seqs) == IF seqs = <<>> THEN <<>> ELSE seqs[1] \o ConcatAll(Tail(seqs))

\* The orders of the stored projects with createdAt descending.
RecencyOrders(st) ==
    { o \in [1..Cardinality(DOMAIN st) -> DOMAIN st] :
        /\ \A i, j \in DOMAIN o : i # j => o[i] # o[j]
        /\ \A i, j \in DOMAIN o : i < j => st[o[i]].createdAt >= st[o[j]].createdAt }

\* The first 10 valid blocks of a project, as examples, in block order.
ProjectSample(p) ==
    LET valid == SelectSeq(p.blocks, ValidForTraining)
    IN  [i \in 1..Min(Len(valid), 10) |->
            [original |-> flatten(valid[i].originalText),
             translated |-> flatten(valid[i].translatedText)]]

\* The sequence S of the claim, for one order of the projects.
SampleSequence(st, o) == ConcatAll([i \in DOMAIN o |-> ProjectSample(st[o[i]])])

\* C10: for limit >= 1 the result is the first min(limit, N) elements of S, the
\* projects taken newest first and each giving its first 10 valid blocks in order.
C10_SamplerPrefix ==
    (pc = "sampled" /\ limit >= 1) =>
        \E o \in RecencyOrders(store) :
            LET S == SampleSequence(store, o)
            IN  examples = SubSeq(S, 1, Min(limit, Len(S)))

\* three projects of 10 valid blocks each, the newest under the last key, limit 5:
\* the first 5 valid blocks of the newest project, in order
C10_Witness ==
    /\ pc = "sampled"
    /\ limit = 5
    /\ Cardinality(DOMAIN store) = 3
    /\ \A k \in DOMAIN store : Len(ProjectSample(store[k])) = 10
    /\ \A k \in DOMAIN store : k # "c" => store[k].createdAt < store["c"].createdAt
    /\ Len(store["c"].blocks) > 10
    /\ examples = SubSeq(ProjectSample(store["c"]), 1, 5)

\* The example is the one block b gives.
FromBlock(e, b) ==
    /\ HasTranslated(b)
    /\ flatten(b.originalText) = e.original
    /\ flatten(b.translatedText) = e.translated

FromProject(e, p) == \E j \in 1..Len(p.blocks) : FromBlock(e, p.blocks[j])

\* C18: every returned example comes from a block with a non-empty originalText
\* and a non-empty translatedText, whose originalText is longer than 10 characters
\* and not digits only; and what one project contributes is at most 10 examples,
\* taken in order from its first 10 such blocks.
C18_SamplerFilter ==
    pc = "sampled" =>
        /\ \A n \in 1..Len(examples) :
              /\ \E k \in DOMAIN store : FromProject(examples[n], store[k])
              /\ \A k \in DOMAIN store : \A j \in 1..Len(store[k].blocks) :
                    FromBlock(examples[n], store[k].blocks[j])
                        => ValidForTraining(store[k].blocks[j])
        /\ \A k \in DOMAIN store :
              LET contributed == SelectSeq(examples, LAMBDA e : FromProject(e, store[k]))
              IN  /\ Len(contributed) <= 10
                  /\ contributed = SubSeq(ProjectSample(store[k]), 1, Len(contributed))

\* With the default limit, a project with 12 valid blocks among junk contributes
\* exactly its first 10, and another project contributes as well.
C18_Witness ==
    /\ pc = "sampled"
    /\ limit = DefaultLimit
    /\ \E k \in DOMAIN store :
          /\ Len(SelectSeq(store[k].blocks, ValidForTraining)) = 12
          /\ Len(store[k].blocks) = 24
          /\ SelectSeq(examples, LAMBDA e : FromProject(e, store[k]))
                 = ProjectSample(store[k])
          /\ Len(examples) > 10


---------------------------------------------------------------------------
(* Degenerate-input scenario: the four operations that take SRT text, on    *)
(* every pair of contents, empty and malformed ones included                *)

OneCue  == <<"1", NL>> \o T001 \o Arrow \o T002 \o <<NL, "H", "i">>
TwoCues == OneCue \o <<NL, NL, "2", NL>> \o T002 \o Arrow \o T002
               \o <<NL, "a", SP, "B", "y", "e">>

\* empty, line breaks only, white space only, one word, a cue without text, a cue
\* without id, a cue without arrow, two malformed cues
ContentsWithoutBlock ==
    { <<>>,
      <<NL, NL>>,
      <<SP, CR, NL, TAB>>,
      <<"H", "i">>,
      <<"4", NL>> \o T001 \o Arrow \o T002,
      <<"x", NL>> \o T001 \o Arrow \o T002 \o <<NL, "N", "o">>,
      <<"3", NL>> \o T001 \o <<SP>> \o T002 \o <<NL, "N", "o">>,
      <<"-", NL>> \o T001 \o Arrow \o T002 \o <<NL, "N", "o", NL, NL, NL>>
          \o T001 \o Arrow \o T002 \o <<NL, "5", NL, "N", "o">> }

\* one cue, two cues, a cue after a malformed one, a cue whose id line is '12a'
ContentsWithBlocks ==
    { OneCue,
      TwoCues,
      <<"H", "i", CR, NL, CR, NL>> \o OneCue,
      <<"1", "2", "a", NL>> \o T001 \o Arrow \o T002 \o <<NL, "O", "k">> }

AnyContents == ContentsWithoutBlock \cup ContentsWithBlocks

InitTotal ==
    /\ pc = "ready"
    /\ originalSrt \in AnyContents
    /\ translatedSrt \in AnyContents
    /\ aligned = <<>> /\ refMap = EmptyMap /\ cursor = 0 /\ examples = <<>>
    /\ idleCodec /\ idleSampler /\ idlePure /\ idleTranslate /\ idleApp

\* parsed = parseSRT(originalSrt)
ParseContent ==
    /\ pc = "ready"
    /\ parsed' = parseSRT(originalSrt)
    /\ pc' = "parsed content"
    /\ UNCHANGED <<blocks, content, examples, alignVars, samplerVars, pureVars, translateVars, appVars>>

NextTotal ==
    \/ ParseContent
    \/ AlignSrts
    \/ CreateReferenceMap
    \/ ExtractStart
    \/ ExtractStep
    \/ ExtractReturn

SpecTotal == InitTotal /\ [][NextTotal]_vars

---------------------------------------------------------------------------
(* Claims about degenerate inputs                                           *)

\* The content is empty or holds no valid block: every candidate is short of
\* three lines, or has no integer to read on its first line, or no arrow on its
\* second.
NoValidBlock(text) ==
    \A k \in 1..Len(CandidatesOf(text)) :
        LET lines == LinesOf(CandidatesOf(text)[k])
        IN  \/ Len(lines) < 3
            \/ lines[1][1] \notin Digits \cup {"-", "+"}
            \/ (lines[1][1] \in {"-", "+"} /\
                    (Len(lines[1]) < 2 \/ lines[1][2] \notin Digits))
            \/ ~includesArrow(lines[2])

---------------------------------------------------------------------------
(* Objects: every SrtBlock the functions create is a new object             *)

\* The heap after the objects objs were created, and their addresses.
allocate(h, objs) == h \o objs
newAddresses(h, objs) == [i \in 1..Len(objs) |-> Len(h) + i]

\* The objects an array of addresses points to.
deref(h, refs) == [i \in 1..Len(refs) |-> h[refs[i]]]

---------------------------------------------------------------------------
(* Invocation scenario: a caller invokes the five srtParser.ts functions in *)
(* any order, on texts and on block arrays it got from earlier invocations  *)

MaxCalls == 3         \* invocations in one run

PureContents == {OneCue, TwoCues}

\* An invocation: its arguments by value, the addresses of the blocks it returned
\* (none for a string, a map or examples) and the value it returned.
invocation(op, args, refs, value) ==
    [op |-> op, args |-> args, refs |-> refs, value |-> value]

InitPure ==
    /\ pc = "calling"
    /\ examples = <<>>
    /\ idleCodec /\ idleAlign /\ idleSampler /\ idlePure /\ idleTranslate /\ idleApp

CallParseSRT ==
    /\ pc = "calling" /\ Len(calls) < MaxCalls
    /\ \E x \in PureContents :
          LET bs == parseSRT(x)
          IN  /\ heap' = allocate(heap, bs)
              /\ calls' = Append(calls,
                    invocation("parseSRT", <<x>>, newAddresses(heap, bs), bs))
    /\ UNCHANGED <<pc, examples, codecVars, alignVars, samplerVars, translateVars, appVars>>

\* stringifySRT of an array an earlier parseSRT or alignSrts returned
CallStringifySRT ==
    /\ pc = "calling" /\ Len(calls) < MaxCalls
    /\ \E k \in 1..Len(calls) :
          /\ calls[k].op \in {"parseSRT", "alignSrts"}
          /\ LET bs == deref(heap, calls[k].refs)
             IN  calls' = Append(calls,
                    invocation("stringifySRT", <<bs>>, <<>>, stringifySRT(bs)))
    /\ UNCHANGED <<pc, heap, examples, codecVars, alignVars, samplerVars, translateVars, appVars>>

CallAlignSrts ==
    /\ pc = "calling" /\ Len(calls) < MaxCalls
    /\ \E x, y \in PureContents :
          LET inner == allocate(allocate(heap, parseSRT(x)), parseSRT(y))
              out == alignSrts(x, y)
          IN  /\ heap' = allocate(inner, out)
              /\ calls' = Append(calls,
                    invocation("alignSrts", <<x, y>>, newAddresses(inner, out), out))
    /\ UNCHANGED <<pc, examples, codecVars, alignVars, samplerVars, translateVars, appVars>>

CallCreateReferenceMap ==
    /\ pc = "calling" /\ Len(calls) < MaxCalls
    /\ \E x, y \in PureContents :
          /\ heap' = allocate(allocate(heap, parseSRT(x)), parseSRT(y))
          /\ calls' = Append(calls,
                invocation("createReferenceMap", <<x, y>>, <<>>, createReferenceMap(x, y)))
    /\ UNCHANGED <<pc, examples, codecVars, alignVars, samplerVars, translateVars, appVars>>

CallExtractStyleExamples ==
    /\ pc = "calling" /\ Len(calls) < MaxCalls
    /\ \E x, y \in PureContents :
          /\ heap' = allocate(allocate(allocate(heap, parseSRT(x)), parseSRT(y)),
                              alignSrts(x, y))
          /\ calls' = Append(calls,
                invocation("extractStyleExamples", <<x, y>>, <<>>,
                           extractStyleExamples(x, y)))
    /\ UNCHANGED <<pc, examples, codecVars, alignVars, samplerVars, translateVars, appVars>>

NextPure ==
    \/ CallParseSRT
    \/ CallStringifySRT
    \/ CallAlignSrts
    \/ CallCreateReferenceMap
    \/ CallExtractStyleExamples

SpecPure == InitPure /\ [][NextPure]_vars

---------------------------------------------------------------------------
(* Claims about referential transparency                                    *)

---------------------------------------------------------------------------
(* Translator: src/unnamed/part_000, translateBatch                         *)

BATCH_SIZE == 20

\* referenceMap: Map<string, string> | null
Null == [isNull |-> TRUE]
MapOf(entries) == [isNull |-> FALSE, entries |-> entries]

\* block.translatedText = text; block.isFromReference = fromReference
withTranslation(b, text, fromReference) ==
    [f \in DOMAIN b \cup {"translatedText", "isFromReference"} |->
        CASE f = "translatedText" -> text
          [] f = "isFromReference" -> fromReference
          [] OTHER -> b[f]]

\* referenceMap.has(block.originalText.trim()), false for every key when the map is null
hasReference(map, b) == ~map.isNull /\ trim(b.originalText) \in DOMAIN map.entries

\* Step 1: the heap after resultBlocks.forEach(block => { ... }) filled the
\* blocks whose trimmed text is a key of the reference map.
prefill(h, refs, map) ==
    [a \in 1..Len(h) |->
        IF (\E k \in 1..Len(refs) : refs[k] = a) /\ hasReference(map, h[a])
        THEN withTranslation(h[a], map.entries[trim(h[a].originalText)], TRUE)
        ELSE h[a]]

\* !b.translatedText: absent, or the empty string
needsTranslation(b) == ~(HasTranslated(b) /\ b.translatedText # <<>>)

\* A batch end that is not clamped to the number of blocks to translate.
batchEndUnclamped(i, totalToTranslate) == i + BATCH_SIZE

\* Math.min(i + BATCH_SIZE, totalToTranslate)
batchEnd(i, totalToTranslate) == Min(i + BATCH_SIZE, totalToTranslate)

\* blocksToTranslate.slice(i, i + BATCH_SIZE), for the 0-based i
currentBatch(toTranslate, i) ==
    SubSeq(toTranslate, i + 1, Min(i + BATCH_SIZE, Len(toTranslate)))

\* translations.forEach(t => { ... }): each entry is written to the first block
\* of resultBlocks that carries its id, if there is one.
RECURSIVE applyTranslations(_, _, _)
applyTranslations(h, refs, translations) ==
    IF translations = <<>> THEN h
    ELSE LET t == translations[1]
             hits == SelectSeq(Indices(refs), LAMBDA k : h[refs[k]].id = t.id)
             written == IF hits = <<>> THEN h
                        ELSE [h EXCEPT ![refs[hits[1]]] =
                                  withTranslation(@, t.translatedText, FALSE)]
         IN  applyTranslations(written, refs, Tail(translations))

---------------------------------------------------------------------------
(* Translation scenario: one call of translateBatch on a loaded file, the   *)
(* LLM answering each batch in any way                                      *)

MaxFileCues == 41     \* cues of the longest file (three batches when none is pre-filled)

\* The text of cue i; the first cue starts with a blank.
fileText(i) == (IF i = 1 THEN <<SP>> ELSE <<>>) \o <<"l", "i", "n", "e", SP>> \o TwoDigits(i)

\* A file and a reference: n cues; ids 1, 2, 3, ... or 1, 1, 2, 2, ... or 1, ..., 21,
\* 1, ..., 20 (two files appended); no reference map, or one holding the text of
\* the first cue, or of every cue; and whether the second cue already carries a
\* translation typed in the editor.
FileShapes ==
    [n : {0, 3, 22, MaxFileCues}, ids : {"unique", "paired", "wrapped"},
     reference : {"null", "first", "all"}, edited : BOOLEAN]

fileId(shape, i) ==
    CASE shape.ids = "unique" -> i
      [] shape.ids = "paired" -> (i + 1) \div 2
      [] shape.ids = "wrapped" -> ((i - 1) % (BATCH_SIZE + 1)) + 1

fileBlock(shape, i) ==
    LET b == [id |-> fileId(shape, i), startTime |-> TwoDigits(i), endTime |-> <<"9">>,
              originalText |-> fileText(i)]
    IN  IF shape.edited /\ i = 2
        THEN [f \in DOMAIN b \cup {"translatedText"} |->
                 IF f = "translatedText" THEN <<"E", "d">> ELSE b[f]]
        ELSE b

referenceOf(shape) ==
    IF shape.reference = "null" THEN Null
    ELSE MapOf([key \in { trim(fileText(i)) :
                             i \in 1..(IF shape.reference = "first" THEN 1 ELSE shape.n) }
                  |-> <<"R", SP>> \o key])

\* What JSON.parse(response.text) may hold for a batch: a translation for each
\* requested block, one for each requested id, nothing, the first translation
\* only, empty translations, or the requested translations followed by one for
\* the id of the first block of the file, of the last block, or for an id no
\* block carries.
Responses(h, refs, batch) ==
    LET requested == [k \in 1..Len(batch) |->
                         [id |-> h[batch[k]].id, translatedText |-> <<"T">> \o TwoDigits(k)]]
        perId == SelectSeq(requested, LAMBDA t :
                     t = requested[CHOOSE k \in 1..Len(batch) :
                                       /\ requested[k].id = t.id
                                       /\ \A j \in 1..(k - 1) : requested[j].id # t.id])
        blank == [k \in 1..Len(batch) |-> [id |-> h[batch[k]].id, translatedText |-> <<>>]]
        strayIds == {h[refs[1]].id, h[refs[Len(refs)]].id, 0}
    IN  {requested, perId, <<>>, SubSeq(requested, 1, 1), blank}
            \cup { Append(requested, [id |-> x, translatedText |-> <<"Z", "z">>]) :
                      x \in strayIds }

\* How the request of the batch that starts at i came back: with translations, or
\* with an error the catch clause took.
answered(i, translations) == [start |-> i, failed |-> FALSE, translations |-> translations]
failure(i) == [start |-> i, failed |-> TRUE, translations |-> <<>>]

InitTranslate ==
    /\ pc = "called"
    /\ \E shape \in FileShapes :
          /\ heap = [i \in 1..shape.n |-> fileBlock(shape, i)]
          /\ blocks = [i \in 1..shape.n |-> i]
          /\ referenceMap = referenceOf(shape)
    /\ content = <<>> /\ parsed = <<>> /\ examples = <<>> /\ calls = <<>>
    /\ resultBlocks = <<>> /\ blocksToTranslate = <<>> /\ batchStart = 0
    /\ progress = <<>> /\ prefilled = <<>> /\ outcomes = <<>>
    /\ idleAlign /\ idleSampler /\ idleApp

\* resultBlocks = [...blocks]; pre-fill; filter; return when nothing is left
StartTranslateBatch ==
    /\ pc = "called"
    /\ LET filled == prefill(heap, blocks, referenceMap)
           toTranslate == SelectSeq(blocks, LAMBDA a : needsTranslation(filled[a]))
       IN  /\ resultBlocks' = blocks
           /\ heap' = filled
           /\ prefilled' = [a \in { r \in 1..Len(heap) :
                                      /\ \E k \in 1..Len(blocks) : blocks[k] = r
                                      /\ hasReference(referenceMap, heap[r]) }
                               |-> filled[a].translatedText]
           /\ blocksToTranslate' = toTranslate
           /\ IF Len(toTranslate) = 0
              THEN progress' = <<Len(blocks)>> /\ pc' = "returned"
              ELSE progress' = progress /\ pc' = "loop"
    /\ batchStart' = 0
    /\ UNCHANGED <<blocks, content, parsed, examples, calls, referenceMap, outcomes,
                   alignVars, samplerVars, appVars>>

\* the loop test holds: onProgress(start of batch), then the request is sent
SendBatch ==
    /\ pc = "loop"
    /\ batchStart < Len(blocksToTranslate)
    /\ progress' = Append(progress,
                       (Len(blocks) - Len(blocksToTranslate)) + batchStart)
    /\ pc' = "awaiting"
    /\ UNCHANGED <<heap, blocks, content, parsed, examples, calls, referenceMap,
                   resultBlocks, blocksToTranslate, batchStart, prefilled, outcomes,
                   alignVars, samplerVars, appVars>>

\* the response parses: its translations are applied, then onProgress(end of batch)
ReceiveTranslations ==
    /\ pc = "awaiting"
    /\ \E translations \in Responses(heap, resultBlocks,
                                     currentBatch(blocksToTranslate, batchStart)) :
          /\ heap' = applyTranslations(heap, resultBlocks, translations)
          /\ outcomes' = Append(outcomes, answered(batchStart, translations))
    /\ progress' = Append(progress,
                       (Len(blocks) - Len(blocksToTranslate))
                           + batchEnd(batchStart, Len(blocksToTranslate)))
    /\ batchStart' = batchStart + BATCH_SIZE
    /\ pc' = "loop"
    /\ UNCHANGED <<blocks, content, parsed, examples, calls, referenceMap,
                   resultBlocks, blocksToTranslate, prefilled, alignVars, samplerVars, appVars>>

\* the call rejects, or the response is empty or does not parse: the catch logs
\* the error, then onProgress(end of batch)
BatchFails ==
    /\ pc = "awaiting"
    /\ outcomes' = Append(outcomes, failure(batchStart))
    /\ progress' = Append(progress,
                       (Len(blocks) - Len(blocksToTranslate))
                           + batchEnd(batchStart, Len(blocksToTranslate)))
    /\ batchStart' = batchStart + BATCH_SIZE
    /\ pc' = "loop"
    /\ UNCHANGED <<heap, blocks, content, parsed, examples, calls, referenceMap,
                   resultBlocks, blocksToTranslate, prefilled, alignVars, samplerVars, appVars>>

\* the loop test fails: return resultBlocks
ReturnResultBlocks ==
    /\ pc = "loop"
    /\ batchStart >= Len(blocksToTranslate)
    /\ pc' = "returned"
    /\ UNCHANGED <<heap, blocks, content, parsed, examples, calls, referenceMap,
                   resultBlocks, blocksToTranslate, batchStart, progress, prefilled,
                   outcomes, alignVars, samplerVars, appVars>>

NextTranslate ==
    \/ StartTranslateBatch
    \/ SendBatch
    \/ ReceiveTranslations
    \/ BatchFails
    \/ ReturnResultBlocks

SpecTranslate == InitTranslate /\ [][NextTranslate]_vars

---------------------------------------------------------------------------
(* Claims about translateBatch                                              *)

\* C15: a block filled from the reference map at the start of translateBatch has
\* that same translatedText and isFromReference = true in the returned blocks.
C15_PrefillIsFinal ==
    pc = "returned" =>
        \A a \in DOMAIN prefilled :
            /\ heap[a].translatedText = prefilled[a]
            /\ heap[a].isFromReference = TRUE

Monotone(counts) ==
    \A i \in 1..Len(counts) : \A j \in i..Len(counts) : counts[i] <= counts[j]

\* C16: the counts passed to onProgress never decrease and never exceed
\* blocks.length, and when translateBatch has returned the last count reported
\* is blocks.length.
C16_Progress ==
    /\ Monotone(progress)
    /\ \A i \in 1..Len(progress) : progress[i] <= Len(blocks)
    /\ pc = "returned" => (progress # <<>> /\ progress[Len(progress)] = Len(blocks))

\* Three batches of a file of 41 cues, the second one without effect: the cue
\* sent first in the second batch has no translation, the first and the last have.
C16_Witness ==
    /\ pc = "returned"
    /\ Len(blocks) = MaxFileCues
    /\ progress = <<0, BATCH_SIZE, BATCH_SIZE, 2 * BATCH_SIZE, 2 * BATCH_SIZE, MaxFileCues>>
    /\ HasTranslated(heap[1]) /\ HasTranslated(heap[MaxFileCues])
    /\ ~HasTranslated(heap[BATCH_SIZE + 1])

\* The ids sent with the batch that starts at i.
SentIds(i) == { heap[currentBatch(blocksToTranslate, i)[k]].id :
                  k \in 1..Len(currentBatch(blocksToTranslate, i)) }

\* The call succeeded and its response holds exactly one translation, a non-empty
\* one, for each id that was sent, and nothing else.
ExactAnswer(outcome) ==
    /\ ~outcome.failed
    /\ \A n \in 1..Len(outcome.translations) :
          /\ outcome.translations[n].id \in SentIds(outcome.start)
          /\ outcome.translations[n].translatedText # <<>>
    /\ \A id \in SentIds(outcome.start) :
          Cardinality({ n \in 1..Len(outcome.translations) :
                          outcome.translations[n].id = id }) = 1

\* C26: when every batch call succeeded with exactly one non-empty translation
\* for each id sent, every block translateBatch returns has a non-empty
\* translatedText, whatever the ids of the file.
C26_CompleteTranslation ==
    (pc = "returned" /\ \A k \in 1..Len(outcomes) : ExactAnswer(outcomes[k]))
        => \A k \in 1..Len(resultBlocks) :
               /\ HasTranslated(heap[resultBlocks[k]])
               /\ heap[resultBlocks[k]].translatedText # <<>>

---------------------------------------------------------------------------
(* App: src/App.tsx, the translation state and its handlers                 *)

\* A File the user picked
FileOf(name) == [isNull |-> FALSE, name |-> name]

\* The render guards of the controls that trigger the handlers.
canSelectFile       == status = "idle" /\ file = Null
canReset            == file # Null /\ status = "idle"
canStartAnyTime     == file # Null
canStartTranslation == file # Null /\ status = "idle"
canDownload         == file # Null /\ status = "completed"

\* SubtitleList shows a textarea for a block when block.translatedText !== undefined
showsTextarea(b) == HasTranslated(b)

\* prev.map(block => block.id === id ? { ...block, translatedText: newText } : block):
\* the new objects, and the new array of addresses
editedCopies(h, refs, id, newText) ==
    LET hits == SelectSeq(Indices(refs), LAMBDA k : h[refs[k]].id = id)
    IN  [n \in 1..Len(hits) |-> withTranslatedText(h[refs[hits[n]]], newText)]

editedArray(h, refs, id) ==
    [k \in 1..Len(refs) |->
        IF h[refs[k]].id = id
        THEN Len(h) + Len(SelectSeq(SubSeq(Indices(refs), 1, k), LAMBDA j : h[refs[j]].id = id))
        ELSE refs[k]]

\* The project saveToDatabase stores
savedProject(key, f, bs, now) ==
    [id |-> key, fileName |-> f.name, createdAt |-> now, blocks |-> bs,
     isExternalImport |-> FALSE]

---------------------------------------------------------------------------
(* App scenario: a user loads a file, may cancel, starts the translation,   *)
(* types into the editor while it runs and afterwards, and downloads        *)

MaxEdits == 2         \* texts typed into the editor after one load
MaxSaved == 1         \* projects saved by downloads

\* The files the user may pick: 3 cues with ids 1, 1, 2; 22 cues with ids 1..22;
\* 22 cues with ids 1..21, 1; a text without a cue.
AppFileShapes ==
    { [n |-> 3, ids |-> "paired", reference |-> "null", edited |-> FALSE],
      [n |-> BATCH_SIZE + 2, ids |-> "unique", reference |-> "null", edited |-> FALSE],
      [n |-> BATCH_SIZE + 2, ids |-> "wrapped", reference |-> "null", edited |-> FALSE] }

AppFileTexts ==
    { stringifySRT([i \in 1..shape.n |-> fileBlock(shape, i)]) : shape \in AppFileShapes }
        \cup { <<"H", "i">> }

\* The reference files of the consistency panel: the first cue of the file and
\* its translation.
ReferenceOriginal ==
    stringifySRT(<< [id |-> 1, startTime |-> <<"0", "1">>, endTime |-> <<"9">>,
                     originalText |-> fileText(1)] >>)
ReferenceTranslated ==
    stringifySRT(<< [id |-> 1, startTime |-> <<"0", "1">>, endTime |-> <<"9">>,
                     originalText |-> <<"R", SP>> \o trim(fileText(1))] >>)

\* The positions whose textarea the user types into.
EditPositions(refs) == {1, 2, Len(refs)} \cap (1..Len(refs))

InitApp ==
    /\ pc = "rest"
    /\ status = "idle" /\ file = Null /\ srtBlocks = <<>> /\ edits = <<>>
    /\ heap = <<>> /\ blocks = <<>> /\ content = <<>> /\ parsed = <<>>
    /\ examples = <<>> /\ calls = <<>> /\ referenceMap = Null
    /\ resultBlocks = <<>> /\ blocksToTranslate = <<>> /\ batchStart = 0
    /\ progress = <<>> /\ prefilled = <<>> /\ outcomes = <<>>
    /\ store = <<>> /\ projects = <<>> /\ limit = 0
    /\ idleAlign

\* handleFileSelect up to `await selectedFile.text()`
HandleFileSelect ==
    /\ canSelectFile
    /\ \E text \in AppFileTexts : content' = text
    /\ file' = FileOf(<<"e", "p", "2">>)
    /\ status' = "parsing"
    /\ pc' = "reading"
    /\ UNCHANGED <<blocks, parsed, examples, heap, calls, srtBlocks, edits,
                   translateVars, alignVars, samplerVars>>

\* handleFileSelect after the await: parseSRT, then setSrtBlocks and setStatus
\* (parseSRT does not throw, so the catch clause is never entered)
FileParsed ==
    /\ pc = "reading"
    /\ parsed' = parseSRT(content)
    /\ IF Len(parsed') = 0
       THEN UNCHANGED <<heap, srtBlocks>>
       ELSE /\ heap' = allocate(heap, parsed')
            /\ srtBlocks' = newAddresses(heap, parsed')
    /\ status' = "idle"
    /\ pc' = "rest"
    /\ UNCHANGED <<blocks, content, examples, calls, file, edits,
                   translateVars, alignVars, samplerVars>>

\* handleReset; the objects of the cancelled file are garbage
HandleReset ==
    /\ canReset
    /\ file' = Null
    /\ srtBlocks' = <<>>
    /\ status' = "idle"
    /\ heap' = <<>> /\ parsed' = <<>> /\ content' = <<>> /\ edits' = <<>>
    /\ UNCHANGED <<pc, blocks, examples, calls, translateVars, alignVars, samplerVars>>

\* startTranslation up to the first await; it returns at once without blocks
StartTranslation ==
    /\ canStartTranslation
    /\ srtBlocks # <<>>
    /\ status' = "translating"
    /\ blocks' = srtBlocks
    /\ pc' = "loading"
    /\ UNCHANGED <<content, parsed, examples, heap, calls, file, srtBlocks, edits,
                   translateVars, alignVars, samplerVars>>

\* startTranslation: the training examples are loaded (or not), the reference
\* files, if both are chosen, are read and createReferenceMap is called; then
\* translateBatch is called
ReferencesLoaded ==
    /\ pc = "loading"
    /\ \/ referenceMap' = Null
       \/ referenceMap' = MapOf(createReferenceMap(ReferenceOriginal, ReferenceTranslated))
    /\ pc' = "called"
    /\ UNCHANGED <<blocks, content, parsed, examples, heap, calls,
                   resultBlocks, blocksToTranslate, batchStart, progress, prefilled,
                   outcomes, alignVars, samplerVars, appVars>>

\* startTranslation: reading a reference file fails; the catch clause
ReferencesFail ==
    /\ pc = "loading"
    /\ status' = "error"
    /\ pc' = "rest"
    /\ UNCHANGED <<blocks, content, parsed, examples, heap, calls, file, srtBlocks, edits,
                   translateVars, alignVars, samplerVars>>

\* startTranslation after `await translateBatch(...)`
TranslationDone ==
    /\ pc = "returned"
    /\ status = "translating"
    /\ srtBlocks' = resultBlocks
    /\ status' = "completed"
    /\ pc' = "rest"
    /\ UNCHANGED <<blocks, content, parsed, examples, heap, calls, file, edits,
                   translateVars, alignVars, samplerVars>>

\* handleTextChange(block.id, e.target.value), from the textarea of a block; the
\* event is handled when no handler is running (at rest, or while a handler awaits)
AppHandleTextChange ==
    /\ file # Null
    /\ pc \in {"rest", "reading", "loading", "awaiting"}
    /\ Len(edits) < MaxEdits
    /\ \E i \in EditPositions(srtBlocks), newText \in EditedTexts :
          /\ showsTextarea(heap[srtBlocks[i]])
          /\ LET id == heap[srtBlocks[i]].id
             IN  /\ heap' = allocate(heap, editedCopies(heap, srtBlocks, id, newText))
                 /\ srtBlocks' = editedArray(heap, srtBlocks, id)
                 /\ edits' = Append(edits, [index |-> i, id |-> id, text |-> newText,
                                            during |-> status])
    /\ UNCHANGED <<pc, blocks, content, parsed, examples, calls, status, file,
                   translateVars, alignVars, samplerVars>>

\* handleDownload: saveToDatabase, then stringifySRT of the blocks
HandleDownload ==
    /\ canDownload
    /\ srtBlocks # <<>>
    /\ Cardinality(DOMAIN store) < MaxSaved
    /\ LET key == KeyOrder[Cardinality(DOMAIN store) + 1]
           bs == deref(heap, srtBlocks)
       IN  /\ store' = [k \in DOMAIN store \cup {key} |->
                           IF k = key THEN savedProject(key, file, bs, 100) ELSE store[k]]
           /\ content' = stringifySRT(bs)
    /\ UNCHANGED <<pc, blocks, parsed, examples, heap, calls, projects, limit,
                   translateVars, alignVars, appVars>>

NextApp ==
    \/ HandleFileSelect
    \/ FileParsed
    \/ HandleReset
    \/ StartTranslation
    \/ ReferencesLoaded
    \/ ReferencesFail
    \/ StartTranslateBatch
    \/ SendBatch
    \/ ReceiveTranslations
    \/ BatchFails
    \/ ReturnResultBlocks
    \/ TranslationDone
    \/ AppHandleTextChange
    \/ HandleDownload

SpecApp == InitApp /\ [][NextApp]_vars

---------------------------------------------------------------------------
(* App claims                                                               *)

\* The objects of the batch an outcome belongs to
BatchOf(outcome) == currentBatch(blocksToTranslate, outcome.start)

\* C24: a batch whose request fails or whose reply cannot be read does not end
\* the translation: the blocks of that batch keep translatedText absent, every
\* later batch is still sent, one block is returned per input block, and the
\* App ends in status 'completed', not 'error'.
C24_BatchFailureContained ==
    /\ (\E k \in 1..Len(outcomes) : outcomes[k].failed) => status # "error"
    /\ status = "completed" =>
          /\ Len(resultBlocks) = Len(blocks)
          /\ Len(outcomes) * BATCH_SIZE >= Len(blocksToTranslate)
          /\ \A k \in 1..Len(outcomes) :
                outcomes[k].failed =>
                    \A n \in 1..Len(BatchOf(outcomes[k])) :
                        ~HasTranslated(heap[BatchOf(outcomes[k])[n]])

\* C25: a text typed into the editor of a block while the status is
\* 'translating' is still that block's translatedText when the status is
\* 'completed', unless the user typed into a block with that id again.
LastEditOf(id) ==
    LET ks == { k \in 1..Len(edits) : edits[k].id = id }
    IN  CHOOSE k \in ks : \A j \in ks : j <= k

C25_EditsSurvive ==
    status = "completed" =>
        \A k \in 1..Len(edits) :
            (edits[k].during = "translating" /\ LastEditOf(edits[k].id) = k)
                => /\ HasTranslated(heap[srtBlocks[edits[k].index]])
                   /\ heap[srtBlocks[edits[k].index]].translatedText = edits[k].text

\* C27: from the load of a file until handleReset the blocks keep their number,
\* their order and their id, startTime, endTime and originalText; only
\* translatedText and isFromReference are set; handleTextChange(id, text)
\* changes translatedText only, and only on the blocks whose id is id.
BlockFields == {"id", "startTime", "endTime", "originalText"}

StructureAsLoaded ==
    srtBlocks # <<>> =>
        /\ Len(srtBlocks) = Len(parsed)
        /\ \A i \in 1..Len(srtBlocks) :
              /\ Core(heap[srtBlocks[i]]) = parsed[i]
              /\ DOMAIN heap[srtBlocks[i]] \subseteq
                    BlockFields \cup {"translatedText", "isFromReference"}

Typed == edits' # edits /\ edits' # <<>>

TextChangeById ==
    Typed =>
        LET e == edits'[Len(edits')]
        IN  /\ Len(srtBlocks') = Len(srtBlocks)
            /\ \A i \in 1..Len(srtBlocks) :
                  LET old == heap[srtBlocks[i]]
                      new == heap'[srtBlocks'[i]]
                  IN  IF old.id = e.id
                      THEN new = [f \in DOMAIN old \cup {"translatedText"} |->
                                     IF f = "translatedText" THEN e.text ELSE old[f]]
                      ELSE new = old

C27_StructureFrozen == [][StructureAsLoaded' /\ TextChangeById]_vars

C27_Witness ==
    /\ status = "completed"
    /\ Len(srtBlocks) = BATCH_SIZE + 2
    /\ Len(edits) = MaxEdits
    /\ edits[1].during = "translating" /\ edits[2].during = "completed"
    /\ \E i \in 1..Len(srtBlocks) :
          /\ HasTranslated(heap[srtBlocks[i]])
          /\ "isFromReference" \in DOMAIN heap[srtBlocks[i]]
          /\ heap[srtBlocks[i]].isFromReference
    /\ \E i \in 1..Len(srtBlocks) : ~HasTranslated(heap[srtBlocks[i]])
    /\ store # <<>>

\* C28: status changes only along idle -> parsing -> idle|error and
\* idle -> translating -> completed|error; startTranslation and handleReset
\* start only at status 'idle' and handleDownload only at 'completed'; a
\* translation starts only when none is in flight; at 'completed' and 'error'
\* the status, the file and the blocks that are loaded change no more (the
\* texts typed into the editor aside).
StatusSteps ==
    { <<"idle", "parsing">>, <<"parsing", "idle">>, <<"parsing", "error">>,
      <<"idle", "translating">>, <<"translating", "completed">>,
      <<"translating", "error">> }

InFlight == pc \in {"loading", "called", "loop", "awaiting", "returned"}

LoadedBlocks == [i \in 1..Len(srtBlocks) |-> Core(heap[srtBlocks[i]])]

C28_StatusProtocol ==
    [][ /\ status' # status => <<status, status'>> \in StatusSteps
        /\ (InFlight' /\ pc' = "loading") => (status = "idle" /\ ~InFlight)
        /\ (file # Null /\ file' = Null) => status = "idle"
        /\ store' # store => status = "completed"
        /\ InFlight' => status' = "translating"
        /\ status \in {"completed", "error"} =>
              /\ status' = status
              /\ file' = file
              /\ LoadedBlocks' = LoadedBlocks
      ]_vars

C28_Witness ==
    /\ status = "completed"
    /\ pc = "rest"
    /\ store # <<>>
    /\ content = stringifySRT(deref(heap, srtBlocks))
    /\ \E k \in 1..Len(outcomes) : outcomes[k].failed
    /\ edits # <<>> /\ edits[Len(edits)].during = "completed"

=============================================================================
